---- MODULE Spec2Model ----
(***************************************************************************)
(* Model of the interface-field matching tool: the auto-mode file loop of  *)
(* main() and, for each file, the pipeline of ExcelProcessor               *)
(* (process_file, _process_worksheet, _process_single,                     *)
(* _process_in_batches, _process_batch, _match_custom_fields).             *)
(*                                                                         *)
(* External collaborators (HANA similarity search, the language model,     *)
(* the file system) are inputs: every call draws its outcome from the      *)
(* outcomes the call can have (a value, an empty value, an exception).     *)
(***************************************************************************)
EXTENDS Integers, Sequences, FiniteSets, TLC

(* ---------------------------- bounds ---------------------------------- *)

\* most rows extract_fields returns for one worksheet
MaxRows == 7

\* most files get_excel_files discovers
MaxFiles == 2

\* excel_config["batch_size"] (LLM_BATCH_SIZE, default 30), scaled down
batch_size == 2

\* excel_config["max_concurrent_batches"] (LLM_MAX_WORKERS, default 5), scaled down
max_concurrent_batches == 2

\* get_file_config()["max_concurrent_files"] (FILE_MAX_WORKERS, default 5), scaled down
max_concurrent_files == 2

\* most fields handed to one function-level call of _match_custom_fields
MaxCustomFields == 3

\* most entries in the "review" list of one language-model response
MaxReview == 3

\* most fields in the batch of one function-level call of the field matcher
MaxBatchFields == 2

\* longest key_flag string drawn from the whole alphabet of flag characters
MaxFlagLen == 3

\* longest raw field_id of a response entry
MaxIdLen == 5

\* longest notes text drawn from the whole alphabet of notes characters
MaxNotesLen == 4

\* longest catalog content text handed to parse_fields
MaxContentLen == 4

\* longest cell text of a query part (field name, field text, sample value)
MaxPartLen == 2

\* most view names in one answer of the view selection
MaxSelected == 2

\* most field entries the field catalog holds for one view
MaxViewFields == 1

\* most results handed to one call of odata_verify
MaxVerifyResults == 2

\* worker threads that use the token tracker at the same time
MaxWorkers == 2

\* most result rows handed to one call of write_results
MaxWriteRows == 3

\* most track_llm / track_embedding calls of all worker threads together
MaxTrackCalls == 2

(* ------------------------ program constants --------------------------- *)

\* excel_config.get("custom_field_threshold", 0.75), as a percentage
custom_field_threshold == 75

\* excel_config["start_row"]: the first data row of the worksheet
start_row == 13

\* the status code odata_verify takes as success of its POST
status_created == 201

VARIABLES
    excel_files,        \* main: number of discovered files (files are 1..excel_files)
    file_index,         \* main: position of the for loop over excel_files
    mainPc,             \* main: "select", "try", "in_file", "done", "exit"
    reached,            \* per file: process_file was called
    fileStatus,         \* per file: "pending", "completed", "failed"
    saved,              \* per file: workbook.save(output_path) was executed
    archived,           \* per file: the source file was moved to the archive
    pc,                 \* position inside process_file for the current file
    path,               \* "none", "single", "batched": branch of _process_worksheet
    input_fields,       \* rows returned by extract_fields (row_index of each field)
    matched_results,    \* (field, result) pairs of the custom-field stage
    unmatched_fields,   \* fields left for the language model
    batches,            \* list of (i, batch_fields) built by _process_in_batches
    futures,            \* per batch: state of the submitted _process_batch call
    collected,          \* batches already yielded by as_completed, in yield order
    unmatched_results,  \* (field, result) pairs collected from the batches
    written,            \* list handed to write_results in this file's run
    writeCalls,         \* number of write_results calls in this file's run
    writeSite,          \* which write_results call site of the run was executed
    customDone,         \* _match_custom_fields has returned in this file's run
    stages,             \* per stage of the run: how often it was entered
    selectionCall,      \* outcome of the language-model call of view selection
    final_context_for_llm, \* "none", then the context built once for the file
    matchCalls,         \* field lists handed to _match_fields, in call order
    lockHolder,         \* TokenTracker._lock: the thread that holds it, or Free
    wpc,                \* per worker thread: its position in the tracker's methods
    thread_local,       \* _thread_local.current_file as each thread sees it
    ownFile,            \* per worker: the file name it passed to set_current_file
    trackCall,          \* per worker: the arguments of its track call in progress
    temp,               \* per worker: the value read by the += in progress
    ncalls,             \* track calls made so far, by all workers
    tracked,            \* per worker: its counted track calls that have returned
    usage,              \* TokenTracker.usage
    provider_usage,     \* TokenTracker.provider_usage[current_provider]
    file_usage,         \* TokenTracker.file_usage
    rpc,                \* the reading thread: its position in get_usage
    snapshot,           \* what the get_usage call in progress has read
    fn,                 \* function-level runs: the function applied, "none" before
    fnArg,              \* function-level runs: the arguments of the call
    fnRes               \* function-level runs: what the call returned or raised

vars == <<excel_files, file_index, mainPc, reached, fileStatus, saved, archived,
          pc, path, input_fields, matched_results, unmatched_fields, batches,
          futures, collected, unmatched_results, written, writeCalls, writeSite, customDone,
          stages, selectionCall, final_context_for_llm, matchCalls,
          lockHolder, wpc, thread_local, ownFile, trackCall, temp, ncalls, tracked,
          usage, provider_usage, file_usage, rpc, snapshot,
          fn, fnArg, fnRes>>

mainVars == <<excel_files, file_index, mainPc, reached, fileStatus, saved, archived>>

fileVars == <<pc, path, input_fields, matched_results, unmatched_fields, batches,
              futures, collected, unmatched_results, written, writeCalls, writeSite, customDone,
              stages, selectionCall, final_context_for_llm, matchCalls>>

stageVars == <<stages, selectionCall, final_context_for_llm, matchCalls>>

tokVars == <<lockHolder, wpc, thread_local, ownFile, trackCall, temp, ncalls, tracked,
             usage, provider_usage, file_usage, rpc, snapshot>>

fnVars == <<fn, fnArg, fnRes>>

(* ----------------------------- helpers -------------------------------- *)

Range(s) == {s[i] : i \in 1..Len(s)}

Min(a, b) == IF a < b THEN a ELSE b

\* the fields of a list of (field, result) pairs, in list order
FieldsOf(pairs) == [i \in 1..Len(pairs) |-> pairs[i].field]

\* match_result built by _match_custom_fields for a catalog hit ("match": "Custom")
CustomResult(row) == [kind |-> "custom", row |-> row]

\* result derived by _parse_llm_response for the row_index of an input field
MatcherResult(row) == [kind |-> "matcher", row |-> row]

\* the empty dict {} that _process_batch substitutes for a field of a failed batch
EmptyResult == [kind |-> "placeholder", row |-> 0]

\* list(zip(fields, results)): pairs positionally, truncating to the shorter list
Zip(fields, results) ==
    [i \in 1..Min(Len(fields), Len(results)) |->
        [field |-> fields[i], result |-> results[i]]]

(* ----------------------- _match_custom_fields -------------------------- *)

\* similarity scores (percent) a catalog search can report for its best candidate
Scores == {0, custom_field_threshold - 1, custom_field_threshold,
           custom_field_threshold + 1, 100}

\* hana_client.search_custom_field_by_vector(field_query, threshold): the best
\* catalog candidate when its similarity reaches the threshold, otherwise nothing
SearchCustomFieldByVector(score, threshold) ==
    IF score >= threshold
    THEN [found |-> TRUE, similarity |-> score]
    ELSE [found |-> FALSE, similarity |-> 0]

\* variant of the loop body that has lost its else: a hit field is also kept as unmatched
CustomFieldStepNoElse(acc, field, hit) ==
    [matched   |-> IF hit
                   THEN Append(acc.matched, [field |-> field, result |-> CustomResult(field)])
                   ELSE acc.matched,
     unmatched |-> Append(acc.unmatched, field)]

\* one iteration of the loop over input_fields: a truthy custom_match appends
\* (field, match_result) to matched_results, otherwise the field is appended,
\* unmodified, to unmatched_fields
CustomFieldStep(acc, field, hit) ==
    IF hit
    THEN [matched   |-> Append(acc.matched, [field |-> field, result |-> CustomResult(field)]),
          unmatched |-> acc.unmatched]
    ELSE [matched   |-> acc.matched,
          unmatched |-> Append(acc.unmatched, field)]

RECURSIVE CustomLoop(_, _, _)
\* the for loop of _match_custom_fields over the first n fields, in list order
CustomLoop(fields, hits, n) ==
    IF n = 0
    THEN [matched |-> <<>>, unmatched |-> <<>>]
    ELSE CustomFieldStep(CustomLoop(fields, hits, n - 1), fields[n], fields[n] \in hits)

\* variant that takes every field as matched, whatever the search returned
MatchCustomFieldsAllMatched(fields, hits) == CustomLoop(fields, Range(fields), Len(fields))

\* _match_custom_fields: hits is the set of fields for which
\* search_custom_field_by_vector returned a record
MatchCustomFields(fields, hits) == CustomLoop(fields, hits, Len(fields))

(* ------------------------- batch construction ------------------------- *)

\* variant with an off-by-one slice end: unmatched_fields[i : i + batch_size + 1]
BatchSliceOneTooLong(unmatched, i, b) ==
    SubSeq(unmatched, i + 1, Min(i + b + 1, Len(unmatched)))

\* the slice unmatched_fields[i : i + batch_size]
BatchSlice(unmatched, i, b) ==
    SubSeq(unmatched, i + 1, Min(i + b, Len(unmatched)))

RECURSIVE BatchLoop(_, _, _)
\* for i in range(0, len(unmatched_fields), batch_size):
\*     batches.append((i, unmatched_fields[i : i + batch_size]))
BatchLoop(unmatched, b, i) ==
    IF i >= Len(unmatched)
    THEN <<>>
    ELSE <<[i |-> i, fields |-> BatchSlice(unmatched, i, b)]>>
         \o BatchLoop(unmatched, b, i + b)

\* variant that hands every field to a call of its own
BatchesPerField(unmatched, b) == BatchLoop(unmatched, 1, 0)

\* the list batches of _process_in_batches
Batches(unmatched, b) == BatchLoop(unmatched, b, 0)

(* --------------------- _match_fields / _process_batch ----------------- *)

\* _match_fields on a successful call: _parse_llm_response appends one result per
\* input field, in input order, looked up by the field's row_index
MatchFields(fields) == [i \in 1..Len(fields) |-> MatcherResult(fields[i])]

\* variant whose except branch returns an empty list instead of one {} per field
ProcessBatchNoPlaceholders(fields, ok) ==
    IF ok THEN MatchFields(fields) ELSE <<>>

\* _process_batch: the matcher's results, or [{} for _ in batch_fields] when
\* _match_fields raises (exception or empty payload)
ProcessBatch(fields, ok) ==
    IF ok THEN MatchFields(fields) ELSE [i \in 1..Len(fields) |-> EmptyResult]

\* batch_fields = unmatched_fields[batch_index : batch_index + batch_size]
\* batch_final_results = list(zip(batch_fields, batch_results))
BatchPairs(unmatched, i, size, results) ==
    Zip(SubSeq(unmatched, i + 1, Min(i + size, Len(unmatched))), results)

(* ------------------------------ merge --------------------------------- *)

\* list.sort is stable: p goes after every element whose key is <= its own
InsertByRow(s, p) ==
    LET k == Cardinality({j \in 1..Len(s) : s[j].field <= p.field})
    IN  SubSeq(s, 1, k) \o <<p>> \o SubSeq(s, k + 1, Len(s))

RECURSIVE SortLoop(_, _)
SortLoop(s, n) ==
    IF n = 0 THEN <<>> ELSE InsertByRow(SortLoop(s, n - 1), s[n])

\* variant that leaves the list in concatenation order
SortByRowIndexOmitted(pairs) == pairs

\* results.sort(key=lambda x: x[0].row_index)
SortByRowIndex(pairs) == SortLoop(pairs, Len(pairs))

\* variant that hands over only the rows resolved by the matcher
MergeResultsUnmatchedOnly(matched, unmatched_res) == SortByRowIndex(unmatched_res)

\* all_results = matched_results + unmatched_results; all_results.sort(...)
MergeResults(matched, unmatched_res) == SortByRowIndex(matched \o unmatched_res)

(* ------------------------- Python values ------------------------------ *)

\* A str is a sequence of one-character strings; values of other types are
\* one-element sequences holding a token that is no character.
None == <<"<None>">>
PyTrue == <<"<True>">>
PyFalse == <<"<False>">>
PyInt == <<"<1>">>

\* isinstance(v, str)
IsStr(v) == \A i \in 1..Len(v) : v[i] \notin {"<None>", "<True>", "<False>", "<1>"}

\* isinstance(v, bool)
IsBool(v) == v \in {PyTrue, PyFalse}

\* the empty dict {}
EmptyDict == [k \in {} |-> k]

\* d.get(k, default)
Get(d, k, default) == IF k \in DOMAIN d THEN d[k] ELSE default

\* str.lower() on one character
LowerChar(c) ==
    CASE c = "T" -> "t" [] c = "R" -> "r" [] c = "U" -> "u" [] c = "E" -> "e"
      [] c = "Y" -> "y" [] c = "S" -> "s" [] c = "X" -> "x" [] c = "N" -> "n"
      [] c = "O" -> "o" [] c = "F" -> "f" [] c = "A" -> "a" [] c = "L" -> "l"
      [] c = "G" -> "g" [] c = "V" -> "v" [] c = "B" -> "b"
      [] OTHER -> c

\* str.lower()
Lower(str) == [i \in 1..Len(str) |-> LowerChar(str[i])]

(* ------------------------ _parse_llm_response ------------------------- *)

\* the presence marker written for a key field
KeyMarker == <<"○">>

\* variant that marks every truthy raw value
NormalizeKeyFlagTruthy(key_flag_raw) ==
    IF key_flag_raw \in {<<>>, None, PyFalse} THEN <<>> ELSE KeyMarker

\* key_flag normalisation: bool by its value, str by membership of its lower
\* case in the accepted words, anything else empty
NormalizeKeyFlag(key_flag_raw) ==
    IF IsBool(key_flag_raw)
    THEN IF key_flag_raw = PyTrue THEN KeyMarker ELSE <<>>
    ELSE IF IsStr(key_flag_raw)
         THEN IF Lower(key_flag_raw) \in {<<"t", "r", "u", "e">>, <<"y">>,
                                          <<"y", "e", "s">>, <<"x">>}
              THEN KeyMarker
              ELSE <<>>
         ELSE <<>>

\* positions of the "." characters of a str
Dots(str) == {i \in 1..Len(str) : str[i] = "."}

RECURSIVE Split(_)
\* str.split("."): the segments between the dots, in order
Split(str) ==
    IF Dots(str) = {}
    THEN <<str>>
    ELSE LET i == CHOOSE d \in Dots(str) : \A e \in Dots(str) : d <= e
         IN  <<SubSeq(str, 1, i - 1)>> \o Split(SubSeq(str, i + 1, Len(str)))

\* field_id cleanup: a non-empty raw id with a dot becomes split(".")[-1]
CleanFieldId(raw_field_id) ==
    IF raw_field_id = <<>> \/ raw_field_id = None
    THEN <<>>
    ELSE IF Dots(raw_field_id) # {}
         THEN Split(raw_field_id)[Len(Split(raw_field_id))]
         ELSE raw_field_id

\* the dict appended to results for one input field
ResultOf(match_result) ==
    [table_id     |-> Get(match_result, "table_id", <<>>),
     field_id     |-> CleanFieldId(Get(match_result, "field_id", <<>>)),
     field_name   |-> Get(match_result, "field_desc", <<>>),
     key_flag     |-> NormalizeKeyFlag(Get(match_result, "key_flag", <<>>)),
     obligatory   |-> Get(match_result, "obligatory", <<>>),
     data_type    |-> Get(match_result, "data_type", <<>>),
     length_total |-> Get(match_result, "length_total", <<>>),
     length_dec   |-> Get(match_result, "length_dec", <<>>),
     field_desc   |-> Get(match_result, "field_desc", <<>>),
     sample_value |-> Get(match_result, "sample_value", <<>>),
     match        |-> Get(match_result, "match", None),
     notes        |-> Get(match_result, "notes", <<>>)]

RECURSIVE MatchMap(_, _)
\* match_map over the first n entries of review: a dict comprehension keyed by
\* row_index, entries without a row_index left out, a later entry replacing an
\* earlier one with the same key
MatchMap(matches, n) ==
    IF n = 0
    THEN EmptyDict
    ELSE LET prev == MatchMap(matches, n - 1)
             m == matches[n]
         IN  IF "row_index" \in DOMAIN m
             THEN [r \in DOMAIN prev \cup {m.row_index} |->
                      IF r = m.row_index THEN m ELSE prev[r]]
             ELSE prev

\* variant that falls back to some entry of the response for a row without one
LookupRowFallback(match_map, row_index) ==
    IF row_index \in DOMAIN match_map
    THEN match_map[row_index]
    ELSE IF DOMAIN match_map = {}
         THEN EmptyDict
         ELSE match_map[CHOOSE r \in DOMAIN match_map : TRUE]

\* match_map.get(row_index, {})
LookupRow(match_map, row_index) == Get(match_map, row_index, EmptyDict)

\* odata_verify(results) with VERIFY_FLAG other than "true": the list as it is
OdataVerify(results) == results

\* variant that pairs results with the response entries by position
ParseLLMResponsePositional(function_response, fields) ==
    LET matches == Get(function_response, "review", <<>>)
    IN  OdataVerify([i \in 1..Len(matches) |-> ResultOf(matches[i])])

\* _parse_llm_response: one result per input field, in input order, built
\* from the response entry that match_map holds for the field's row_index
ParseLLMResponse(function_response, fields) ==
    LET matches == Get(function_response, "review", <<>>)
        match_map == MatchMap(matches, Len(matches))
    IN  OdataVerify([i \in 1..Len(fields) |->
                        ResultOf(LookupRow(match_map, fields[i]))])

\* the str "Custom"
CustomTag == <<"C", "u", "s", "t", "o", "m">>

\* the match_result dict _match_custom_fields builds for a catalog hit; the
\* attributes copied from the catalog record stand for themselves
CustomMatchResult(is_key) ==
    [table_id |-> <<"Z">>, field_id |-> <<"Z", "F">>,
     key_flag |-> IF is_key THEN KeyMarker ELSE <<>>,
     match |-> CustomTag, notes |-> <<"%">>]

\* "not results_response": the call returned None or an empty dict
Falsy(results_response) ==
    results_response.kind = "none" \/ DOMAIN results_response.value = {}

\* variant that degrades an empty payload to one empty result per field
MatchFieldsWithContextDegrading(results_response, fields) ==
    IF Falsy(results_response)
    THEN [raised |-> FALSE, calls |-> 1,
          results |-> [i \in 1..Len(fields) |-> ResultOf(EmptyDict)]]
    ELSE [raised |-> FALSE, calls |-> 1,
          results |-> ParseLLMResponse(results_response.value, fields)]

\* _match_fields_with_context after its one call_with_function: an empty
\* payload raises RuntimeError, any other payload is parsed
MatchFieldsWithContext(results_response, fields) ==
    IF Falsy(results_response)
    THEN [raised |-> TRUE, calls |-> 1, results |-> <<>>]
    ELSE [raised |-> FALSE, calls |-> 1,
          results |-> ParseLLMResponse(results_response.value, fields)]

\* _process_batch with the payload of its language-model call: the results of
\* the matcher, or one {} per field when the matcher raised
ProcessBatchResults(batch_fields, results_response) ==
    LET r == MatchFieldsWithContext(results_response, batch_fields)
    IN  IF r.raised
        THEN [i \in 1..Len(batch_fields) |-> EmptyDict]
        ELSE r.results

(* ---------------------------- _parse_notes ---------------------------- *)

\* \d
Digits == {"0", "1", "2", "3", "4", "5", "6", "7", "8", "9"}

\* \s, and what str.strip() removes
Space == {" "}

\* the first position from i on whose character is not in S (Len + 1 if none)
SkipWhile(str, i, S) ==
    CHOOSE j \in i..(Len(str) + 1) :
        /\ \A k \in i..(j - 1) : str[k] \in S
        /\ j = Len(str) + 1 \/ str[j] \notin S

\* str.strip()
Strip(str) ==
    LET a == SkipWhile(str, 1, Space)
        b == CHOOSE j \in 0..Len(str) :
                 /\ j = 0 \/ str[j] \notin Space
                 /\ \A k \in (j + 1)..Len(str) : str[k] \in Space
    IN  SubSeq(str, a, b)

\* a failed re.match / re.search
NoMatch == [ok |-> FALSE, percentage |-> <<>>, description |-> <<>>]

\* re.match(r"^(\d+%)\s*[-:]\s*(.+)$", t): (group 1, group 2 stripped)
Pattern1(t) ==
    LET a == SkipWhile(t, 1, Digits)
        b == SkipWhile(t, a + 1, Space)
        c == SkipWhile(t, b + 1, Space)
    IN  IF /\ a > 1
           /\ a <= Len(t)
           /\ t[a] = "%"
           /\ b <= Len(t)
           /\ t[b] \in {"-", ":"}
           /\ c <= Len(t)
        THEN [ok |-> TRUE, percentage |-> SubSeq(t, 1, a),
              description |-> Strip(SubSeq(t, c, Len(t)))]
        ELSE NoMatch

\* re.match(r"^(.+)\s*\((\d+%)\)\s*$", t) on a stripped t: (group 2, group 1 stripped)
Pattern2(t) ==
    LET e == Len(t)
        p == CHOOSE j \in 1..(e - 1) :
                 /\ \A k \in j..(e - 2) : t[k] \in Digits
                 /\ j = 1 \/ t[j - 1] \notin Digits
    IN  IF /\ e >= 5
           /\ t[e] = ")"
           /\ t[e - 1] = "%"
           /\ p <= e - 2
           /\ p >= 3
           /\ t[p - 1] = "("
        THEN [ok |-> TRUE, percentage |-> SubSeq(t, p, e - 1),
              description |-> Strip(SubSeq(t, 1, p - 2))]
        ELSE NoMatch

\* re.match(r"^(\d+%)\s*$", t) on a stripped t
Pattern3(t) ==
    LET a == SkipWhile(t, 1, Digits)
    IN  IF a > 1 /\ a = Len(t) /\ t[a] = "%"
        THEN [ok |-> TRUE, percentage |-> t, description |-> <<>>]
        ELSE NoMatch

\* the end of the match of r"\s*\d+%\s*[-:()]*\s*" that starts at pos, 0 if none
SubMatchEnd(str, pos) ==
    LET a == SkipWhile(str, pos, Space)
        b == SkipWhile(str, a, Digits)
        c == SkipWhile(str, b + 1, Space)
        d == SkipWhile(str, c, {"-", ":", "(", ")"})
        e == SkipWhile(str, d, Space)
    IN  IF b > a /\ b <= Len(str) /\ str[b] = "%" THEN e - 1 ELSE 0

RECURSIVE SubPercent(_, _)
\* re.sub(r"\s*\d+%\s*[-:()]*\s*", " ", str) from position pos on
SubPercent(str, pos) ==
    IF pos > Len(str)
    THEN <<>>
    ELSE IF SubMatchEnd(str, pos) > 0
         THEN <<" ">> \o SubPercent(str, SubMatchEnd(str, pos) + 1)
         ELSE <<str[pos]>> \o SubPercent(str, pos + 1)

\* the positions where re.search(r"(\d+%)", str) can match
PercentStarts(str) ==
    {i \in 1..Len(str) :
        /\ str[i] \in Digits
        /\ SkipWhile(str, i, Digits) <= Len(str)
        /\ str[SkipWhile(str, i, Digits)] = "%"}

\* re.search(r"(\d+%)", notes_text) and the re.sub that follows a match
Pattern4(notes_text) ==
    IF PercentStarts(notes_text) = {}
    THEN NoMatch
    ELSE LET i == CHOOSE s \in PercentStarts(notes_text) :
                      \A u \in PercentStarts(notes_text) : s <= u
         IN  [ok |-> TRUE,
              percentage |-> SubSeq(notes_text, i, SkipWhile(notes_text, i, Digits)),
              description |-> Strip(SubPercent(notes_text, 1))]

\* variant that tries the "text (NN%)" pattern before the "NN% - text" pattern
ParseNotesParenFirst(notes_text) ==
    IF notes_text = <<>> \/ notes_text = None
    THEN [percentage |-> <<>>, description |-> <<>>]
    ELSE LET t == Strip(notes_text)
             m == IF Pattern2(t).ok THEN Pattern2(t)
                  ELSE IF Pattern1(t).ok THEN Pattern1(t)
                  ELSE IF Pattern3(t).ok THEN Pattern3(t)
                  ELSE IF Pattern4(notes_text).ok THEN Pattern4(notes_text)
                  ELSE [ok |-> FALSE, percentage |-> <<>>, description |-> t]
         IN  [percentage |-> m.percentage, description |-> m.description]

\* _parse_notes: (percentage, description)
ParseNotes(notes_text) ==
    IF notes_text = <<>> \/ notes_text = None
    THEN [percentage |-> <<>>, description |-> <<>>]
    ELSE LET t == Strip(notes_text)
             m == IF Pattern1(t).ok THEN Pattern1(t)
                  ELSE IF Pattern2(t).ok THEN Pattern2(t)
                  ELSE IF Pattern3(t).ok THEN Pattern3(t)
                  ELSE IF Pattern4(notes_text).ok THEN Pattern4(notes_text)
                  ELSE [ok |-> FALSE, percentage |-> <<>>, description |-> t]
         IN  [percentage |-> m.percentage, description |-> m.description]

(* ---------------------------- parse_fields ---------------------------- *)

\* variant whose look-ahead reads the next character without skipping blanks
ParseFieldsStepNoSkip(st, content_str, i) ==
    IF content_str[i] = "\""
    THEN IF ~st.in_string
         THEN [in_string |-> TRUE, result_chars |-> Append(st.result_chars, "\"")]
         ELSE IF i + 1 = Len(content_str) + 1 \/ content_str[i + 1] \in {",", "]", "}"}
              THEN [in_string |-> FALSE, result_chars |-> Append(st.result_chars, "\"")]
              ELSE [in_string |-> TRUE, result_chars |-> st.result_chars \o <<"\\", "\"">>]
    ELSE [in_string |-> st.in_string, result_chars |-> Append(st.result_chars, content_str[i])]

\* one iteration of the while loop of parse_fields, at (1-based) position i:
\* a quote outside a string opens one; a quote inside a string closes it when
\* the look-ahead past whitespace reaches the end of the text or finds one of
\* ',', ']', '}', and is emitted as \" otherwise; any other character is copied
ParseFieldsStep(st, content_str, i) ==
    IF content_str[i] = "\""
    THEN IF ~st.in_string
         THEN [in_string |-> TRUE, result_chars |-> Append(st.result_chars, "\"")]
         ELSE LET next_char_index == SkipWhile(content_str, i + 1, Space)
              IN  IF \/ next_char_index = Len(content_str) + 1
                     \/ content_str[next_char_index] \in {",", "]", "}"}
                  THEN [in_string |-> FALSE,
                        result_chars |-> Append(st.result_chars, "\"")]
                  ELSE [in_string |-> TRUE,
                        result_chars |-> st.result_chars \o <<"\\", "\"">>]
    ELSE [in_string |-> st.in_string, result_chars |-> Append(st.result_chars, content_str[i])]

RECURSIVE ParseFieldsLoop(_, _)
\* the state of parse_fields after the first n characters of content_str
ParseFieldsLoop(content_str, n) ==
    IF n = 0
    THEN [in_string |-> FALSE, result_chars |-> <<>>]
    ELSE ParseFieldsStep(ParseFieldsLoop(content_str, n - 1), content_str, n)

\* parse_fields(content_str): "".join(result_chars)
ParseFields(content_str) == ParseFieldsLoop(content_str, Len(content_str)).result_chars

(* ------------------ _match_custom_fields, query text ------------------ *)

RECURSIVE JoinSpace(_)
\* " ".join(parts)
JoinSpace(parts) ==
    IF Len(parts) = 0
    THEN <<>>
    ELSE IF Len(parts) = 1
         THEN parts[1]
         ELSE parts[1] \o <<" ">> \o JoinSpace(Tail(parts))

\* " ".join([str(p).strip() for p in query_parts if p]): the parts that are
\* truthy (non-empty) are kept, each kept part is stripped, then joined
QueryText(query_parts) ==
    LET kept == SelectSeq(query_parts, LAMBDA p : p # <<>>)
    IN  JoinSpace([i \in 1..Len(kept) |-> Strip(kept[i])])

(* ------------------------ odata_verify, enabled ------------------------ *)

\* os.getenv("ODATA_MESSAGE"): the configured rejection message
ODATA_MESSAGE == <<"N", "G">>

\* the marker of a confirmed pair, the check mark U+221A of the source
VerifiedMark == <<"V">>

\* the marker of a result whose pair the service did not report
NotApplicableMark == <<"-">>

\* result["verify"] = marker on a dict that had no such key
SetVerify(result, marker) == ("verify" :> marker) @@ result

\* the else branch of "if checkresult['ReturnCode'] == 0"
Rejected(result) ==
    [result EXCEPT !.table_id = <<>>, !.field_id = <<>>, !.data_type = <<>>,
                   !.length_total = <<>>, !.length_dec = <<>>,
                   !.sample_value = <<>>, !.match = <<>>,
                   !.notes = ODATA_MESSAGE]

\* odata_verify(results) with VERIFY_FLAG "true", given the response of the
\* validation service: its status code and, per (ToEntity, ToField) pair it
\* reports, the ReturnCode; any status but 201 leaves the results as they are
OdataVerifyEnabled(results, response) ==
    IF response.status_code = status_created
    THEN [i \in 1..Len(results) |->
            LET result == results[i]
                key == <<result.table_id, result.field_id>>
            IN  IF key \in DOMAIN response.checkresults
                THEN IF response.checkresults[key] = 0
                     THEN SetVerify(result, VerifiedMark)
                     ELSE Rejected(result)
                ELSE SetVerify(result, NotApplicableMark)]
    ELSE results

(* --------------------------- write_results ---------------------------- *)

\* the output cells of a row, in the order write_results assigns them
OutputColumns ==
    <<"field_name", "field_id", "key_flag", "obligatory", "table_id", "data_type",
      "length_total", "length_dec", "match", "notes", "sample_value", "verify">>

\* variant that writes every row
WritableAlways(isverify) == TRUE

\* if isverify == "" or isverify == "-"
Writable(isverify) == isverify = <<>> \/ isverify = NotApplicableMark

\* the try block for one row: the cells are assigned in order, each with
\* match_result.get(column, ""); an exception at assignment number fail leaves
\* the cells before it written and goes to the except branch (fail 0: none)
WriteRow(cells, match_result, fail) ==
    [c \in DOMAIN cells |->
        LET j == CHOOSE k \in 1..Len(OutputColumns) : OutputColumns[k] = c
        IN  IF fail = 0 \/ j < fail
            THEN Get(match_result, c, <<>>)
            ELSE cells[c]]

RECURSIVE WriteResultsLoop(_, _, _, _)
\* the for loop of write_results over the first n results; the except branch
\* is "continue", so the loop goes on with the next row
WriteResultsLoop(worksheet, results, fails, n) ==
    IF n = 0
    THEN worksheet
    ELSE LET before == WriteResultsLoop(worksheet, results, fails, n - 1)
             row == results[n].field.row_index
             isverify == results[n].field.verify
         IN  IF Writable(isverify)
             THEN [before EXCEPT ![row] = WriteRow(@, results[n].result, fails[n])]
             ELSE before

\* write_results(worksheet, results)
WriteResultsCells(worksheet, results, fails) ==
    WriteResultsLoop(worksheet, results, fails, Len(results))

(* ------------------ get_fields, _prepare_llm_context ------------------ *)

\* view names: two of the kind the view listing returns and one other name
ViewNames == {"I_A", "I_B", "Z_X"}

\* results = {view: [] for view in cds_views}: the keys in first-occurrence order
DictKeys(cds_views) ==
    SelectSeq([i \in 1..Len(cds_views) |->
                  IF \E j \in 1..(i - 1) : cds_views[j] = cds_views[i]
                  THEN "" ELSE cds_views[i]],
              LAMBDA v : v # "")

\* get_fields when the query succeeds: one entry per requested name, holding
\* the field entries of every catalog row WHERE "TABLENAME" IN cds_views
GetFields(cds_views, catalog) ==
    LET keys == DictKeys(cds_views)
    IN  [i \in 1..Len(keys) |->
            [view   |-> keys[i],
             fields |-> [k \in 1..catalog[keys[i]] |-> [field_name |-> k]]]]

\* views_find_by_cat[views_find_by_cat["VIEWNAME"].isin(llm_return_views)]
RelevantViews(candidates, llm_return_views) ==
    candidates \cap Range(llm_return_views)

RECURSIVE PrepareLLMContextLoop(_, _, _)
PrepareLLMContextLoop(all_fields, relevant_views, n) ==
    IF n = 0
    THEN <<>>
    ELSE PrepareLLMContextLoop(all_fields, relevant_views, n - 1) \o
         [k \in 1..Len(all_fields[n].fields) |->
             [view_name  |-> all_fields[n].view,
              view_desc  |-> IF all_fields[n].view \in relevant_views
                             THEN "desc" ELSE "",
              field_name |-> all_fields[n].fields[k].field_name]]

\* _prepare_llm_context: one row per field entry of every item of
\* all_fields_dict; view_desc_map.get(view_name, "") gives the description
PrepareLLMContext(all_fields, relevant_views) ==
    PrepareLLMContextLoop(all_fields, relevant_views, Len(all_fields))

(* --------------------------- TokenTracker ----------------------------- *)

\* the worker threads; the thread that reads through get_usage; no thread
TokWorkers == 1..MaxWorkers
Reader == 0
Free == -1

\* the file names workers pass to set_current_file; getattr(..., None)
FileNames == {"a.xlsx", "b.xlsx"}
NoFile == ""

\* TokenUsage()
ZeroUsage ==
    [embedding_tokens |-> 0, llm_input_tokens |-> 0,
     llm_output_tokens |-> 0, llm_total_tokens |-> 0]

\* TokenUsage.add_embedding
AddEmbedding(u, tokens) == [u EXCEPT !.embedding_tokens = @ + tokens]

\* TokenUsage.add_llm: a total of 0 stands for input + output
AddLlm(u, input_tokens, output_tokens, total_tokens) ==
    LET total == IF total_tokens = 0 THEN input_tokens + output_tokens
                                     ELSE total_tokens
    IN  [u EXCEPT !.llm_input_tokens = @ + input_tokens,
                  !.llm_output_tokens = @ + output_tokens,
                  !.llm_total_tokens = @ + total]

\* the update of self.usage by a track call: add_llm with the caller's total
ApplyToUsage(u, c) ==
    IF c.kind = "llm"
    THEN AddLlm(u, c.input_tokens, c.output_tokens, c.total_tokens)
    ELSE AddEmbedding(u, c.tokens)

\* the update of a provider's or a file's entry: add_llm without a total
ApplyToEntry(u, c) ==
    IF c.kind = "llm"
    THEN AddLlm(u, c.input_tokens, c.output_tokens, 0)
    ELSE AddEmbedding(u, c.tokens)

\* variant of the tracker whose methods do not wait for the lock
LockFreeAlways(holder) == TRUE

\* "with self._lock": the body is entered only while no thread holds the lock
LockFree(holder) == holder = Free

\* variant that keeps the current file in one attribute shared by all threads
SetThreadLocalShared(tl, w, filename) == [v \in DOMAIN tl |-> filename]

\* _thread_local.current_file = filename, seen by the assigning thread only
SetThreadLocal(tl, w, filename) == [tl EXCEPT ![w] = filename]

\* if filename not in self.file_usage: self.file_usage[filename] = TokenUsage()
WithFileEntry(fu, filename) ==
    IF filename \in DOMAIN fu THEN fu ELSE (filename :> ZeroUsage) @@ fu

\* no track call in progress
NoCall == [kind |-> "none", input_tokens |-> 0, output_tokens |-> 0,
           total_tokens |-> 0, tokens |-> 0]

\* no += in progress
NoTemp == [u |-> ZeroUsage, file |-> NoFile]

\* no get_usage call in progress
NoSnapshot == [complete |-> FALSE, usage |-> ZeroUsage,
               provider_usage |-> ZeroUsage, file_usage |-> EmptyDict]

\* the tracker after get_token_tracker and set_provider, before any thread
\* has used it
TrackerInit ==
    /\ lockHolder = Free
    /\ wpc = [w \in TokWorkers |-> "new"]
    /\ thread_local = [w \in TokWorkers |-> NoFile]
    /\ ownFile = [w \in TokWorkers |-> NoFile]
    /\ trackCall = [w \in TokWorkers |-> NoCall]
    /\ temp = [w \in TokWorkers |-> NoTemp]
    /\ ncalls = 0
    /\ tracked = [w \in TokWorkers |-> <<>>]
    /\ usage = ZeroUsage
    /\ provider_usage = ZeroUsage
    /\ file_usage = EmptyDict
    /\ rpc = "idle"
    /\ snapshot = NoSnapshot

(* ------------------------------ state --------------------------------- *)

Files == 1..excel_files

\* no stage of the run was entered yet
NoStage == [custom |-> 0, category |-> 0, views |-> 0, selection |-> 0, context |-> 0]

\* state of the per-file variables before process_file is entered
FileReset ==
    /\ pc' = "idle"
    /\ path' = "none"
    /\ input_fields' = <<>>
    /\ matched_results' = <<>>
    /\ unmatched_fields' = <<>>
    /\ batches' = <<>>
    /\ futures' = <<>>
    /\ collected' = <<>>
    /\ unmatched_results' = <<>>
    /\ written' = <<>>
    /\ writeCalls' = 0
    /\ writeSite' = "none"
    /\ customDone' = FALSE
    /\ stages' = NoStage
    /\ selectionCall' = "not_called"
    /\ final_context_for_llm' = "none"
    /\ matchCalls' = <<>>

\* main() up to the for loop: get_excel_files; no file found returns at once
Init ==
    /\ excel_files \in 0..MaxFiles
    /\ file_index = 1
    /\ mainPc = IF excel_files = 0 THEN "done" ELSE "select"
    /\ reached = [f \in 1..excel_files |-> FALSE]
    /\ fileStatus = [f \in 1..excel_files |-> "pending"]
    /\ saved = [f \in 1..excel_files |-> FALSE]
    /\ archived = [f \in 1..excel_files |-> FALSE]
    /\ pc = "idle"
    /\ path = "none"
    /\ input_fields = <<>>
    /\ matched_results = <<>>
    /\ unmatched_fields = <<>>
    /\ batches = <<>>
    /\ futures = <<>>
    /\ collected = <<>>
    /\ unmatched_results = <<>>
    /\ written = <<>>
    /\ writeCalls = 0
    /\ writeSite = "none"
    /\ customDone = FALSE
    /\ stages = NoStage
    /\ selectionCall = "not_called"
    /\ final_context_for_llm = "none"
    /\ matchCalls = <<>>
    /\ TrackerInit
    /\ fn = "none"
    /\ fnArg = <<>>
    /\ fnRes = <<>>

\* write_results(worksheet, results): the list handed over is recorded
WriteResults(results, site) ==
    /\ written' = results
    /\ writeCalls' = writeCalls + 1
    /\ writeSite' = site

\* an exception leaves the current step of process_file and propagates to main
Raise ==
    /\ pc' = "raised"

(* ------------------------------- main --------------------------------- *)

\* variant that saves the workbook in a finally clause, also after an exception
SavedAfterRaiseAlways(sv, f) == [sv EXCEPT ![f] = TRUE]

\* an exception raised before workbook.save(output_path) skips the save
SavedAfterRaise(sv, f) == sv

\* for loop body up to the inner try: auto_select_ai_service and the construction
\* of ExcelProcessor run outside the inner try, so an exception there reaches
\* the outer except of main, which ends the process with sys.exit(1)
SelectAIService ==
    /\ mainPc = "select"
    /\ file_index <= excel_files
    /\ \E ok \in BOOLEAN :
          mainPc' = IF ok THEN "try" ELSE "exit"
    /\ UNCHANGED <<excel_files, file_index, reached, fileStatus, saved, archived>>
    /\ UNCHANGED fileVars
    /\ UNCHANGED fnVars
    /\ UNCHANGED tokVars

\* inner try: set_current_file, then process_file up to the call of
\* _process_worksheet (file exists, workbook loads, sheet is present)
ProcessFileBegin ==
    /\ mainPc = "try"
    /\ mainPc' = "in_file"
    /\ reached' = [reached EXCEPT ![file_index] = TRUE]
    /\ \E opened \in BOOLEAN :
          pc' = IF opened THEN "worksheet" ELSE "raised"
    /\ UNCHANGED <<excel_files, file_index, fileStatus, saved, archived>>
    /\ UNCHANGED <<path, input_fields, matched_results, unmatched_fields, batches,
                   futures, collected, unmatched_results, written, writeCalls, writeSite, customDone>>
    /\ UNCHANGED stageVars
    /\ UNCHANGED fnVars
    /\ UNCHANGED tokVars

\* next iteration of the for loop, or the end of main after the last file
NextFile ==
    /\ file_index' = file_index + 1
    /\ mainPc' = IF file_index + 1 > excel_files THEN "done" ELSE "select"

\* process_file returned: the rest of the inner try
FileCompleted ==
    /\ mainPc = "in_file"
    /\ pc = "returned"
    /\ fileStatus' = [fileStatus EXCEPT ![file_index] = "completed"]
    /\ NextFile
    /\ FileReset
    /\ UNCHANGED <<excel_files, reached, saved, archived>>
    /\ UNCHANGED fnVars
    /\ UNCHANGED tokVars

\* process_file raised: the inner except logs, records status "failed", continues
FileFailed ==
    /\ mainPc = "in_file"
    /\ pc = "raised"
    /\ fileStatus' = [fileStatus EXCEPT ![file_index] = "failed"]
    /\ saved' = SavedAfterRaise(saved, file_index)
    /\ NextFile
    /\ FileReset
    /\ UNCHANGED <<excel_files, reached, archived>>
    /\ UNCHANGED fnVars
    /\ UNCHANGED tokVars

(* --------------------------- process_file ----------------------------- *)

\* _process_worksheet: extract_fields, then the branch on len(input_fields)
ProcessWorksheet ==
    /\ pc = "worksheet"
    /\ \E n \in 0..MaxRows :
          /\ input_fields' = [k \in 1..n |-> start_row + k - 1]
          /\ path' = IF n <= batch_size THEN "single" ELSE "batched"
    /\ pc' = "custom"
    /\ UNCHANGED mainVars
    /\ UNCHANGED <<matched_results, unmatched_fields, batches, futures, collected,
                   unmatched_results, written, writeCalls, writeSite, customDone>>
    /\ UNCHANGED stageVars
    /\ UNCHANGED fnVars
    /\ UNCHANGED tokVars

\* step 1 of _process_single and _process_in_batches: _match_custom_fields, and
\* the early write when no field is left unmatched
MatchCustom ==
    /\ pc = "custom"
    /\ \/ \E hits \in SUBSET Range(input_fields) :
             LET r == MatchCustomFields(input_fields, hits)
             IN  /\ matched_results' = r.matched
                 /\ unmatched_fields' = r.unmatched
                 /\ customDone' = TRUE
                 /\ IF r.unmatched = <<>>
                    THEN /\ WriteResults(r.matched, "all_matched")
                         /\ pc' = "ws_returned"
                    ELSE /\ UNCHANGED <<written, writeCalls, writeSite>>
                         /\ pc' = "category"
       \/ \* HANADBClient() or the search raises
          /\ Raise
          /\ UNCHANGED <<matched_results, unmatched_fields, written, writeCalls, writeSite, customDone>>
    /\ UNCHANGED mainVars
    /\ UNCHANGED <<path, input_fields, batches, futures, collected,
                   unmatched_results>>
    /\ stages' = [stages EXCEPT !.custom = @ + 1]
    /\ UNCHANGED <<selectionCall, final_context_for_llm, matchCalls>>
    /\ UNCHANGED fnVars
    /\ UNCHANGED tokVars

\* run_vector_search for the category: an empty frame writes the matched rows
CategoryLookup ==
    /\ pc = "category"
    /\ \/ /\ pc' = "views"
          /\ UNCHANGED <<written, writeCalls, writeSite>>
       \/ /\ WriteResults(matched_results, "no_category")
          /\ pc' = "ws_returned"
       \/ /\ Raise
          /\ UNCHANGED <<written, writeCalls, writeSite>>
    /\ UNCHANGED mainVars
    /\ UNCHANGED <<path, input_fields, matched_results, unmatched_fields, batches,
                   futures, collected, unmatched_results, customDone>>
    /\ stages' = [stages EXCEPT !.category = @ + 1]
    /\ UNCHANGED <<selectionCall, final_context_for_llm, matchCalls>>
    /\ UNCHANGED fnVars
    /\ UNCHANGED tokVars

\* get_views for the category: an empty frame writes the matched rows
GetViews ==
    /\ pc = "views"
    /\ \/ /\ pc' = "select_views"
          /\ UNCHANGED <<written, writeCalls, writeSite>>
       \/ /\ WriteResults(matched_results, "no_views")
          /\ pc' = "ws_returned"
       \/ /\ Raise
          /\ UNCHANGED <<written, writeCalls, writeSite>>
    /\ UNCHANGED mainVars
    /\ UNCHANGED <<path, input_fields, matched_results, unmatched_fields, batches,
                   futures, collected, unmatched_results, customDone>>
    /\ stages' = [stages EXCEPT !.views = @ + 1]
    /\ UNCHANGED <<selectionCall, final_context_for_llm, matchCalls>>
    /\ UNCHANGED fnVars
    /\ UNCHANGED tokVars

\* what call_with_function does inside _select_relevant_views: it raises,
\* returns nothing, returns an answer without view names, or one with names
SelectionCalls == {"raised", "none", "no_names", "names"}

\* variant of _select_relevant_views without its try/except
LlmReturnViewsPropagating(call) ==
    [raised |-> call = "raised",
     views  |-> IF call = "names" THEN "some" ELSE "empty"]

\* _select_relevant_views: the answer's relevant_view_names; [] when the answer
\* is falsy or lacks the names, and [] from the except branch when the call raised
LlmReturnViews(call) ==
    [raised |-> FALSE,
     views  |-> IF call = "names" THEN "some" ELSE "empty"]

\* the selection step of the run: an empty selection ("if not llm_return_views")
\* writes the matched rows and returns
SelectRelevantViews ==
    /\ pc = "select_views"
    /\ \E call \in SelectionCalls :
          LET r == LlmReturnViews(call)
          IN  /\ selectionCall' = call
              /\ IF r.raised
                    THEN /\ Raise
                         /\ UNCHANGED <<written, writeCalls, writeSite>>
                    ELSE IF r.views = "empty"
                    THEN /\ WriteResults(matched_results, "no_selection")
                         /\ pc' = "ws_returned"
                    ELSE /\ pc' = "context"
                         /\ UNCHANGED <<written, writeCalls, writeSite>>
    /\ stages' = [stages EXCEPT !.selection = @ + 1]
    /\ UNCHANGED mainVars
    /\ UNCHANGED <<path, input_fields, matched_results, unmatched_fields, batches,
                   futures, collected, unmatched_results, customDone>>
    /\ UNCHANGED <<final_context_for_llm, matchCalls>>
    /\ UNCHANGED fnVars
    /\ UNCHANGED tokVars

\* get_fields (and get_custom_fields in _process_single) and _prepare_llm_context
BuildContext ==
    /\ pc = "context"
    /\ \/ /\ pc' = IF path = "single" THEN "match_single" ELSE "submit"
          /\ final_context_for_llm' = "built"
       \/ /\ Raise
          /\ UNCHANGED final_context_for_llm
    /\ stages' = [stages EXCEPT !.context = @ + 1]
    /\ UNCHANGED mainVars
    /\ UNCHANGED <<path, input_fields, matched_results, unmatched_fields, batches,
                   futures, collected, unmatched_results, written, writeCalls, writeSite, customDone>>
    /\ UNCHANGED <<selectionCall, matchCalls>>
    /\ UNCHANGED fnVars
    /\ UNCHANGED tokVars

(* --------------------------- _process_single -------------------------- *)

\* the try around _match_fields in _process_single: on success zip, merge, sort
\* and write; on an exception write matched_results and raise RuntimeError
MatchSingle ==
    /\ pc = "match_single"
    /\ \/ LET res == Zip(unmatched_fields, MatchFields(unmatched_fields))
          IN  /\ unmatched_results' = res
              /\ WriteResults(MergeResults(matched_results, res), "merged")
              /\ pc' = "ws_returned"
       \/ /\ WriteResults(matched_results, "llm_error")
          /\ Raise
          /\ UNCHANGED unmatched_results
    /\ matchCalls' = Append(matchCalls, unmatched_fields)
    /\ UNCHANGED mainVars
    /\ UNCHANGED <<path, input_fields, matched_results, unmatched_fields, batches,
                   futures, collected, customDone>>
    /\ UNCHANGED <<stages, selectionCall, final_context_for_llm>>
    /\ UNCHANGED fnVars
    /\ UNCHANGED tokVars

(* ------------------------- _process_in_batches ------------------------ *)

\* batches whose _process_batch call is running on a worker thread
Running(futs) == {c \in 1..Len(futs) : futs[c].st = "running"}

\* variant of the executor without a limit on its worker threads
WorkerFreeUnbounded(futs) == TRUE

\* ThreadPoolExecutor(max_workers=self.max_concurrent_batches): a queued call
\* starts only while fewer than max_workers calls are running
WorkerFree(futs) == Cardinality(Running(futs)) < max_concurrent_batches

\* build the batches and submit every one of them to the executor
SubmitBatches ==
    /\ pc = "submit"
    /\ batches' = Batches(unmatched_fields, batch_size)
    /\ futures' = [c \in 1..Len(Batches(unmatched_fields, batch_size)) |->
                      [st |-> "queued", ok |-> FALSE, result |-> <<>>,
                       context |-> final_context_for_llm]]
    /\ unmatched_results' = <<>>
    /\ collected' = <<>>
    /\ pc' = "collect"
    /\ UNCHANGED mainVars
    /\ UNCHANGED <<path, input_fields, matched_results, unmatched_fields,
                   written, writeCalls, writeSite, customDone>>
    /\ UNCHANGED stageVars
    /\ UNCHANGED fnVars
    /\ UNCHANGED tokVars

\* a free worker thread takes the oldest queued call from the executor's queue
WorkerStart ==
    /\ pc = "collect"
    /\ WorkerFree(futures)
    /\ \E c \in 1..Len(futures) :
          /\ futures[c].st = "queued"
          /\ \A d \in 1..(c - 1) : futures[d].st # "queued"
          /\ futures' = [futures EXCEPT ![c].st = "running"]
          /\ matchCalls' = Append(matchCalls, batches[c].fields)
    /\ UNCHANGED mainVars
    /\ UNCHANGED <<pc, path, input_fields, matched_results, unmatched_fields, batches,
                   collected, unmatched_results, written, writeCalls, writeSite, customDone>>
    /\ UNCHANGED <<stages, selectionCall, final_context_for_llm>>
    /\ UNCHANGED fnVars
    /\ UNCHANGED tokVars

\* _process_batch returns on its worker thread: _match_fields succeeded or raised
WorkerFinish ==
    /\ pc = "collect"
    /\ \E c \in 1..Len(futures) :
          /\ futures[c].st = "running"
          /\ \E ok \in BOOLEAN :
                futures' = [futures EXCEPT ![c] =
                               [st     |-> "done",
                                ok     |-> ok,
                                context |-> futures[c].context,
                                result |-> ProcessBatch(batches[c].fields, ok)]]
    /\ UNCHANGED mainVars
    /\ UNCHANGED <<pc, path, input_fields, matched_results, unmatched_fields, batches,
                   collected, unmatched_results, written, writeCalls, writeSite, customDone>>
    /\ UNCHANGED stageVars
    /\ UNCHANGED fnVars
    /\ UNCHANGED tokVars

\* one iteration of "for future in as_completed(future_to_batch)": any finished
\* call not yet yielded; its results are zipped with its slice of unmatched_fields
CollectBatch ==
    /\ pc = "collect"
    /\ \E c \in 1..Len(futures) :
          /\ futures[c].st = "done"
          /\ c \notin Range(collected)
          /\ unmatched_results' =
                unmatched_results \o
                BatchPairs(unmatched_fields, batches[c].i, Len(batches[c].fields),
                           futures[c].result)
          /\ collected' = Append(collected, c)
    /\ UNCHANGED mainVars
    /\ UNCHANGED <<pc, path, input_fields, matched_results, unmatched_fields, batches,
                   futures, written, writeCalls, writeSite, customDone>>
    /\ UNCHANGED stageVars
    /\ UNCHANGED fnVars
    /\ UNCHANGED tokVars

\* variant that leaves the collection loop at the first finished call
AllCollectedFirstOnly(done, chunks) == Len(done) >= 1

\* "for future in as_completed(future_to_batch)" ends when every submitted call
\* was yielded
AllCollected(done, chunks) == Len(done) = Len(chunks)

\* after the executor block: merge, sort and write all results
MergeAndWrite ==
    /\ pc = "collect"
    /\ AllCollected(collected, batches)
    /\ WriteResults(MergeResults(matched_results, unmatched_results), "merged")
    /\ pc' = "ws_returned"
    /\ UNCHANGED mainVars
    /\ UNCHANGED <<path, input_fields, matched_results, unmatched_fields, batches,
                   futures, collected, unmatched_results, customDone>>
    /\ UNCHANGED stageVars
    /\ UNCHANGED fnVars
    /\ UNCHANGED tokVars

(* ----------------------- process_file, tail --------------------------- *)

\* _process_worksheet returned: workbook.save(output_path), then
\* _archive_processed_file, which reports a failure by returning False
SaveWorkbook ==
    /\ pc = "ws_returned"
    /\ saved' = [saved EXCEPT ![file_index] = TRUE]
    /\ \E moved \in BOOLEAN :
          archived' = [archived EXCEPT ![file_index] = moved]
    /\ pc' = "returned"
    /\ UNCHANGED <<excel_files, file_index, mainPc, reached, fileStatus>>
    /\ UNCHANGED <<path, input_fields, matched_results, unmatched_fields, batches,
                   futures, collected, unmatched_results, written, writeCalls, writeSite, customDone>>
    /\ UNCHANGED stageVars
    /\ UNCHANGED fnVars
    /\ UNCHANGED tokVars

Next ==
    \/ SelectAIService
    \/ ProcessFileBegin
    \/ ProcessWorksheet
    \/ MatchCustom
    \/ CategoryLookup
    \/ GetViews
    \/ SelectRelevantViews
    \/ BuildContext
    \/ MatchSingle
    \/ SubmitBatches
    \/ WorkerStart
    \/ WorkerFinish
    \/ CollectBatch
    \/ MergeAndWrite
    \/ SaveWorkbook
    \/ FileCompleted
    \/ FileFailed

Spec == Init /\ [][Next]_vars

(* ----------------------- function-level runs -------------------------- *)

\* one call of a function on arguments drawn from a bounded set; the file loop
\* is idle (no file was discovered)
InitFn ==
    /\ Init
    /\ excel_files = 0

\* _match_custom_fields(input_fields) with the catalog scores of the fields
ApplyMatchCustomFields ==
    /\ fn = "none"
    /\ \E n \in 1..MaxCustomFields :
       \E score \in [1..n -> Scores] :
          LET fields == [k \in 1..n |-> start_row + k - 1]
              hits == {fields[k] : k \in {j \in 1..n :
                          SearchCustomFieldByVector(score[j], custom_field_threshold).found}}
          IN  /\ fn' = "_match_custom_fields"
              /\ fnArg' = [fields |-> fields, score |-> score]
              /\ fnRes' = MatchCustomFields(fields, hits)
    /\ UNCHANGED mainVars
    /\ UNCHANGED fileVars
    /\ UNCHANGED tokVars

\* all sequences over S of length at most n
SeqsUpTo(S, n) == UNION {[1..k -> S] : k \in 0..n}

\* non-empty batches: lists of distinct row indexes starting at start_row
BatchInputs ==
    {f \in SeqsUpTo(start_row..(start_row + MaxBatchFields - 1), MaxBatchFields) :
        /\ Len(f) >= 1
        /\ \A i, j \in 1..Len(f) : i # j => f[i] # f[j]}

\* attributes of a response entry that carries every attribute of the schema
FullEntry ==
    [table_id |-> <<"T">>, field_id |-> <<"V", ".", "F">>, field_desc |-> <<"d">>,
     key_flag |-> PyTrue, obligatory |-> <<"x">>, data_type |-> <<"C">>,
     length_total |-> <<"8">>, length_dec |-> <<"0">>, sample_value |-> <<"s">>,
     match |-> <<"L">>, notes |-> <<"8", "%">>]

\* attributes of a response entry that names a field and nothing else
SparseEntry == [table_id |-> <<"U">>, field_id |-> <<"G">>, key_flag |-> <<"n">>]

\* an entry with its row_index
WithRow(attrs, r) ==
    [k \in DOMAIN attrs \cup {"row_index"} |-> IF k = "row_index" THEN r ELSE attrs[k]]

\* entries a response can hold: for a row of the batch, for a foreign row
\* (the row after the batch's rows), or without a row_index
ResponseEntries ==
    {WithRow(a, r) : a \in {FullEntry, SparseEntry},
                     r \in start_row..(start_row + MaxBatchFields)}
    \cup {FullEntry}

\* what call_with_function can return: None, an empty dict, a dict without
\* "review", a dict with a "review" list
ResponseOutcomes ==
    {[kind |-> "none", value |-> EmptyDict], [kind |-> "dict", value |-> EmptyDict],
     [kind |-> "dict", value |-> [other |-> <<>>]]}
    \cup {[kind |-> "dict", value |-> [review |-> rv]] :
              rv \in SeqsUpTo(ResponseEntries, MaxReview)}

\* _match_fields_with_context(input_fields, context) with the payload of its call
ApplyMatchFieldsWithContext ==
    /\ fn = "none"
    /\ \E fields \in BatchInputs, response \in ResponseOutcomes :
          /\ fn' = "_match_fields_with_context"
          /\ fnArg' = [fields |-> fields, response |-> response]
          /\ fnRes' = MatchFieldsWithContext(response, fields)
    /\ UNCHANGED mainVars
    /\ UNCHANGED fileVars
    /\ UNCHANGED tokVars

\* custom stage, one chunk of the batched path and the merge, on one worksheet
\* of MaxBatchFields rows: hits are the rows the catalog search resolves, the
\* rest goes to _process_batch with the payload of its call
ApplyMergeResults ==
    /\ fn = "none"
    /\ \E hits \in SUBSET (start_row..(start_row + MaxBatchFields - 1)),
          rv \in SeqsUpTo(ResponseEntries, MaxBatchFields),
          kind \in {"none", "dict"} :
          LET fields == [k \in 1..MaxBatchFields |-> start_row + k - 1]
              custom == MatchCustomFields(fields, hits)
              matched == [i \in 1..Len(custom.matched) |->
                             [field |-> custom.matched[i].field,
                              result |-> CustomMatchResult(FALSE)]]
              response == [kind |-> kind,
                           value |-> IF kind = "none" THEN EmptyDict ELSE [review |-> rv]]
              unmatched_res == Zip(custom.unmatched,
                                   ProcessBatchResults(custom.unmatched, response))
          IN  /\ kind = "none" => rv = <<>>
              /\ fn' = "merge"
              /\ fnArg' = [fields |-> fields, hits |-> hits, response |-> response]
              /\ fnRes' = MergeResults(matched, unmatched_res)
    /\ UNCHANGED mainVars
    /\ UNCHANGED fileVars
    /\ UNCHANGED tokVars

\* raw key_flag values of a response entry: bool, None, a number, the words
\* the code accepts in several spellings, near misses, and every short string
\* over a few characters
KeyFlagInputs ==
    {PyTrue, PyFalse, None, PyInt}
    \cup {<<"t", "r", "u", "e">>, <<"T", "R", "U", "E">>, <<"T", "r", "u", "e">>,
          <<"t", "R", "u", "E">>, <<"y", "e", "s">>, <<"Y", "E", "S">>,
          <<"f", "a", "l", "s", "e">>, <<"F", "a", "l", "s", "e">>, <<"n", "o">>,
          <<"N">>, <<"1">>, <<"0">>, <<"t">>, <<"t", "r", "u">>,
          <<"t", "r", "u", "e", " ">>, <<" ", "t", "r", "u", "e">>,
          <<"y", "e", "s", "s">>, <<"○">>}
    \cup SeqsUpTo({"y", "Y", "e", "s", "x", "X", " "}, MaxFlagLen)

\* the key_flag that _parse_llm_response derives from a response entry with
\* the given raw key_flag, or without one
ApplyNormalizeKeyFlag ==
    /\ fn = "none"
    /\ \E match_result \in {EmptyDict} \cup {[key_flag |-> raw] : raw \in KeyFlagInputs} :
          /\ fn' = "key_flag"
          /\ fnArg' = match_result
          /\ fnRes' = ResultOf(match_result).key_flag
    /\ UNCHANGED mainVars
    /\ UNCHANGED fileVars
    /\ UNCHANGED tokVars

\* raw field_id values of a response entry: None and every str of up to
\* MaxIdLen characters over three letters and the dot
FieldIdInputs == {None} \cup SeqsUpTo({"V", "A", "B", "."}, MaxIdLen)

\* the field_id that _parse_llm_response derives from a response entry with
\* the given raw field_id, or without one
ApplyCleanFieldId ==
    /\ fn = "none"
    /\ \E match_result \in {EmptyDict} \cup {[field_id |-> raw] : raw \in FieldIdInputs} :
          /\ fn' = "field_id"
          /\ fnArg' = match_result
          /\ fnRes' = ResultOf(match_result).field_id
    /\ UNCHANGED mainVars
    /\ UNCHANGED fileVars
    /\ UNCHANGED tokVars

\* the notes texts of the documented formats and of their near misses
NotesExamples ==
    {<<"8", "5", "%", " ", "-", " ", "G", "o", "o", "d", " ", "f", "i", "t">>,
     <<"G", "o", "o", "d", " ", "f", "i", "t", " ", "(", "8", "5", "%", ")">>,
     <<"8", "5", "%">>,
     <<"n", "o", " ", "p", "e", "r", "c", "e", "n", "t", " ", "h", "e", "r", "e">>,
     <<"8", "5", "%", " ", "-", " ", "G", "o", "o", "d", " ", "(", "9", "0", "%", ")">>,
     <<"8", "5", "%", ":", " ", "G", "o", "o", "d", " ", "f", "i", "t">>,
     <<"G", "o", "o", "d", " ", "8", "5", "%", " ", "f", "i", "t">>,
     <<" ", "G", "o", "o", "d", " ", "f", "i", "t", " ">>,
     <<"(", "8", "5", "%", ")">>,
     <<"8", "5", "%", " ", "-">>,
     <<"f", "i", "t", " ", "8", "5", "%", " ", "(", "o", "k", ")">>,
     <<"5", " ", "%", " ", "o", "f", "f">>,
     <<"G", "o", "o", "d", " ", "(", "8", "5", "%", ")", " ", "f", "i", "t", " ", "9", "0", "%">>}

\* notes values: None, the examples, and every text of up to MaxNotesLen
\* characters over a digit, the percent sign, a blank, the separators and a letter
NotesInputs ==
    {None} \cup NotesExamples
    \cup SeqsUpTo({"8", "%", " ", "-", "(", ")", "G"}, MaxNotesLen)

\* _parse_notes(notes_text)
ApplyParseNotes ==
    /\ fn = "none"
    /\ \E notes_text \in NotesInputs :
          /\ fn' = "_parse_notes"
          /\ fnArg' = notes_text
          /\ fnRes' = ParseNotes(notes_text)
    /\ UNCHANGED mainVars
    /\ UNCHANGED fileVars
    /\ UNCHANGED tokVars

\* catalog content texts: every text of up to MaxContentLen characters over
\* the quote, the three separators, a blank and a letter
ContentInputs == SeqsUpTo({"\"", ",", "]", "}", " ", "a"}, MaxContentLen)

\* parse_fields(content_str), and parse_fields applied to its own output
ApplyParseFields ==
    /\ fn = "none"
    /\ \E content_str \in ContentInputs :
          /\ fn' = "parse_fields"
          /\ fnArg' = content_str
          /\ fnRes' = [once |-> ParseFields(content_str),
                       twice |-> ParseFields(ParseFields(content_str))]
    /\ UNCHANGED mainVars
    /\ UNCHANGED fileVars
    /\ UNCHANGED tokVars

\* cell texts of up to MaxPartLen characters; an empty cell reads as ''
PartTexts == SeqsUpTo({"a", "b", " "}, MaxPartLen)

\* the query text _match_custom_fields builds for one field as extract_fields
\* delivers it: field_name stripped, field_text and sample_value as in the cell
ApplyQueryText ==
    /\ fn = "none"
    /\ \E name \in PartTexts, field_text \in PartTexts, sample_value \in PartTexts :
          LET field_name == Strip(name)
          IN  /\ fn' = "query_text"
              /\ fnArg' = <<field_name, field_text, sample_value>>
              /\ fnRes' = QueryText(<<field_name, field_text, sample_value>>)
    /\ UNCHANGED mainVars
    /\ UNCHANGED fileVars
    /\ UNCHANGED tokVars

\* get_fields and _prepare_llm_context on a selection answer: candidates are the
\* names of the view listing, catalog the number of field entries per view
ApplyPrepareLLMContext ==
    /\ fn = "none"
    /\ \E candidates \in SUBSET ViewNames :
       \E llm_return_views \in SeqsUpTo(ViewNames, MaxSelected) :
       \E catalog \in [ViewNames -> 0..MaxViewFields] :
          /\ llm_return_views # <<>>
          /\ fn' = "prepare_context"
          /\ fnArg' = [candidates |-> candidates,
                       llm_return_views |-> llm_return_views,
                       catalog |-> catalog]
          /\ fnRes' = PrepareLLMContext(GetFields(llm_return_views, catalog),
                                        RelevantViews(candidates, llm_return_views))
    /\ UNCHANGED mainVars
    /\ UNCHANGED fileVars
    /\ UNCHANGED tokVars

\* the results of _parse_llm_response for answers that name a table or none
VerifyEntries ==
    {[table_id |-> t, field_id |-> f, data_type |-> <<"C">>,
      length_total |-> <<"4">>, length_dec |-> <<"0">>, sample_value |-> <<"x">>,
      match |-> <<"S">>, notes |-> <<"8", "0", "%">>] :
        t \in {<<>>, <<"T">>}, f \in {<<"F">>, <<"G">>}}

\* the (ToEntity, ToField) pairs the validation service can report
VerifyKeys == {<<(<<"T">>), (<<"F">>)>>, <<(<<"T">>), (<<"G">>)>>}

\* responses of the validation service: a failure status, or success with a
\* ReturnCode for some of the pairs
VerifyResponses ==
    {[status_code |-> 500, checkresults |-> EmptyDict]} \cup
    {[status_code |-> status_created, checkresults |-> c] :
        c \in UNION {[ks -> {0, 1}] : ks \in SUBSET VerifyKeys}}

\* odata_verify on the results of one parsed answer, verification enabled
ApplyOdataVerify ==
    /\ fn = "none"
    /\ \E n \in 1..MaxVerifyResults :
       \E entries \in [1..n -> VerifyEntries] :
       \E response \in VerifyResponses :
          LET results == [i \in 1..n |-> ResultOf(entries[i])]
          IN  /\ fn' = "odata_verify"
              /\ fnArg' = [results |-> results, response |-> response]
              /\ fnRes' = OdataVerifyEnabled(results, response)
    /\ UNCHANGED mainVars
    /\ UNCHANGED fileVars
    /\ UNCHANGED tokVars

\* the cells of a row as a prior run left them
PriorCells == [c \in Range(OutputColumns) |-> <<"o">>]

\* the verification markers extract_fields can deliver for a row
PriorMarkers == {<<>>, NotApplicableMark, VerifiedMark}

\* a result of a failed chunk, and a verified result of the matcher
WriteEntries ==
    {EmptyDict,
     SetVerify([field_name |-> <<"n">>, field_id |-> <<"F">>, key_flag |-> KeyMarker,
                obligatory |-> <<>>, table_id |-> <<"T">>, data_type |-> <<"C">>,
                length_total |-> <<"4">>, length_dec |-> <<"0">>,
                match |-> <<"S">>, notes |-> <<"8", "0", "%">>,
                sample_value |-> <<"x">>], VerifiedMark)}

\* where the assignments of a row can fail: nowhere, or at the sixth cell
WriteFailures == {0, 6}

\* write_results on the rows start_row, start_row + 1, ... of a worksheet
ApplyWriteResults ==
    /\ fn = "none"
    /\ \E n \in 1..MaxWriteRows :
       \E markers \in [1..n -> PriorMarkers] :
       \E entries \in [1..n -> WriteEntries] :
       \E fails \in [1..n -> WriteFailures] :
          LET results == [i \in 1..n |->
                             [field  |-> [row_index |-> start_row + i - 1,
                                          verify |-> markers[i]],
                              result |-> entries[i]]]
              worksheet == [r \in start_row..(start_row + n - 1) |-> PriorCells]
          IN  /\ fn' = "write_results"
              /\ fnArg' = [results |-> results, fails |-> fails,
                           worksheet |-> worksheet]
              /\ fnRes' = WriteResultsCells(worksheet, results, fails)
    /\ UNCHANGED mainVars
    /\ UNCHANGED fileVars
    /\ UNCHANGED tokVars

NextFn ==
    \/ ApplyMatchCustomFields
    \/ ApplyMergeResults
    \/ ApplyMatchFieldsWithContext
    \/ ApplyNormalizeKeyFlag
    \/ ApplyCleanFieldId
    \/ ApplyParseNotes
    \/ ApplyParseFields
    \/ ApplyQueryText
    \/ ApplyPrepareLLMContext
    \/ ApplyOdataVerify
    \/ ApplyWriteResults

SpecFn == InitFn /\ [][NextFn]_vars

(* ---------------------- token tracker, threads ------------------------ *)

\* set_current_file(filename) by a worker thread: entering "with self._lock"
SetCurrentFileAcquire(w) ==
    /\ wpc[w] = "new"
    /\ LockFree(lockHolder)
    /\ \E filename \in FileNames : ownFile' = [ownFile EXCEPT ![w] = filename]
    /\ lockHolder' = w
    /\ wpc' = [wpc EXCEPT ![w] = "set_body"]
    /\ UNCHANGED <<thread_local, trackCall, temp, ncalls, tracked, usage, provider_usage,
                   file_usage, rpc, snapshot>>
    /\ UNCHANGED mainVars
    /\ UNCHANGED fileVars
    /\ UNCHANGED fnVars

\* the body of set_current_file, and leaving the lock
SetCurrentFileBody(w) ==
    /\ wpc[w] = "set_body"
    /\ thread_local' = SetThreadLocal(thread_local, w, ownFile[w])
    /\ file_usage' = WithFileEntry(file_usage, ownFile[w])
    /\ lockHolder' = Free
    /\ wpc' = [wpc EXCEPT ![w] = "ready"]
    /\ UNCHANGED <<ownFile, trackCall, temp, ncalls, tracked, usage, provider_usage, rpc,
                   snapshot>>
    /\ UNCHANGED mainVars
    /\ UNCHANGED fileVars
    /\ UNCHANGED fnVars

\* argument triples (input_tokens, output_tokens, total_tokens) of track_llm
LlmArgs == {<<0, 0, 0>>, <<1, 2, 4>>}

\* arguments of track_embedding
EmbeddingArgs == {0, 3}

\* track_llm is called: it returns at once when neither count is positive,
\* otherwise it goes on to take the lock
TrackLlm(w) ==
    /\ wpc[w] = "ready"
    /\ ncalls < MaxTrackCalls
    /\ \E args \in LlmArgs :
          IF args[1] <= 0 /\ args[2] <= 0
          THEN /\ ncalls' = ncalls + 1
               /\ UNCHANGED <<wpc, trackCall>>
          ELSE /\ trackCall' = [trackCall EXCEPT ![w] =
                              [kind |-> "llm", input_tokens |-> args[1],
                               output_tokens |-> args[2], total_tokens |-> args[3],
                               tokens |-> 0]]
               /\ wpc' = [wpc EXCEPT ![w] = "track_wait"]
               /\ UNCHANGED ncalls
    /\ UNCHANGED <<lockHolder, thread_local, ownFile, temp, tracked, usage,
                   provider_usage, file_usage, rpc, snapshot>>
    /\ UNCHANGED mainVars
    /\ UNCHANGED fileVars
    /\ UNCHANGED fnVars

\* track_embedding is called: it returns at once when tokens <= 0
TrackEmbedding(w) ==
    /\ wpc[w] = "ready"
    /\ ncalls < MaxTrackCalls
    /\ \E tokens \in EmbeddingArgs :
          IF tokens <= 0
          THEN /\ ncalls' = ncalls + 1
               /\ UNCHANGED <<wpc, trackCall>>
          ELSE /\ trackCall' = [trackCall EXCEPT ![w] =
                              [kind |-> "embedding", input_tokens |-> 0,
                               output_tokens |-> 0, total_tokens |-> 0,
                               tokens |-> tokens]]
               /\ wpc' = [wpc EXCEPT ![w] = "track_wait"]
               /\ UNCHANGED ncalls
    /\ UNCHANGED <<lockHolder, thread_local, ownFile, temp, tracked, usage,
                   provider_usage, file_usage, rpc, snapshot>>
    /\ UNCHANGED mainVars
    /\ UNCHANGED fileVars
    /\ UNCHANGED fnVars

\* a track call enters "with self._lock"
TrackAcquire(w) ==
    /\ wpc[w] = "track_wait"
    /\ LockFree(lockHolder)
    /\ lockHolder' = w
    /\ wpc' = [wpc EXCEPT ![w] = "usage_load"]
    /\ UNCHANGED <<thread_local, ownFile, trackCall, temp, ncalls, tracked, usage,
                   provider_usage, file_usage, rpc, snapshot>>
    /\ UNCHANGED mainVars
    /\ UNCHANGED fileVars
    /\ UNCHANGED fnVars

\* self.usage.add_...: the += reads the counters
LoadUsage(w) ==
    /\ wpc[w] = "usage_load"
    /\ temp' = [temp EXCEPT ![w].u = usage]
    /\ wpc' = [wpc EXCEPT ![w] = "usage_store"]
    /\ UNCHANGED <<lockHolder, thread_local, ownFile, trackCall, ncalls, tracked, usage,
                   provider_usage, file_usage, rpc, snapshot>>
    /\ UNCHANGED mainVars
    /\ UNCHANGED fileVars
    /\ UNCHANGED fnVars

\* self.usage.add_...: the += writes the counters back
StoreUsage(w) ==
    /\ wpc[w] = "usage_store"
    /\ usage' = ApplyToUsage(temp[w].u, trackCall[w])
    /\ wpc' = [wpc EXCEPT ![w] = "provider_load"]
    /\ UNCHANGED <<lockHolder, thread_local, ownFile, trackCall, temp, ncalls, tracked,
                   provider_usage, file_usage, rpc, snapshot>>
    /\ UNCHANGED mainVars
    /\ UNCHANGED fileVars
    /\ UNCHANGED fnVars

\* self.provider_usage[provider].add_...: the += reads the counters
LoadProvider(w) ==
    /\ wpc[w] = "provider_load"
    /\ temp' = [temp EXCEPT ![w].u = provider_usage]
    /\ wpc' = [wpc EXCEPT ![w] = "provider_store"]
    /\ UNCHANGED <<lockHolder, thread_local, ownFile, trackCall, ncalls, tracked, usage,
                   provider_usage, file_usage, rpc, snapshot>>
    /\ UNCHANGED mainVars
    /\ UNCHANGED fileVars
    /\ UNCHANGED fnVars

\* self.provider_usage[provider].add_...: the += writes the counters back
StoreProvider(w) ==
    /\ wpc[w] = "provider_store"
    /\ provider_usage' = ApplyToEntry(temp[w].u, trackCall[w])
    /\ wpc' = [wpc EXCEPT ![w] = "file_load"]
    /\ UNCHANGED <<lockHolder, thread_local, ownFile, trackCall, temp, ncalls, tracked,
                   usage, file_usage, rpc, snapshot>>
    /\ UNCHANGED mainVars
    /\ UNCHANGED fileVars
    /\ UNCHANGED fnVars

\* current_file = self.get_current_file(); when it names an entry of
\* file_usage, the += on that entry reads the counters
LoadFile(w) ==
    /\ wpc[w] = "file_load"
    /\ LET current_file == thread_local[w]
       IN  temp' = [temp EXCEPT ![w] =
                       [u    |-> IF current_file \in DOMAIN file_usage
                                 THEN file_usage[current_file] ELSE ZeroUsage,
                        file |-> current_file]]
    /\ wpc' = [wpc EXCEPT ![w] = "file_store"]
    /\ UNCHANGED <<lockHolder, thread_local, ownFile, trackCall, ncalls, tracked, usage,
                   provider_usage, file_usage, rpc, snapshot>>
    /\ UNCHANGED mainVars
    /\ UNCHANGED fileVars
    /\ UNCHANGED fnVars

\* the += on the file's entry writes the counters back; the call leaves the
\* lock and returns
StoreFile(w) ==
    /\ wpc[w] = "file_store"
    /\ file_usage' = IF temp[w].file # NoFile /\ temp[w].file \in DOMAIN file_usage
                     THEN [file_usage EXCEPT ![temp[w].file] =
                              ApplyToEntry(temp[w].u, trackCall[w])]
                     ELSE file_usage
    /\ temp' = [temp EXCEPT ![w] = NoTemp]
    /\ lockHolder' = Free
    /\ tracked' = [tracked EXCEPT ![w] = Append(@, trackCall[w])]
    /\ trackCall' = [trackCall EXCEPT ![w] = NoCall]
    /\ ncalls' = ncalls + 1
    /\ wpc' = [wpc EXCEPT ![w] = "ready"]
    /\ UNCHANGED <<thread_local, ownFile, usage, provider_usage, rpc, snapshot>>
    /\ UNCHANGED mainVars
    /\ UNCHANGED fileVars
    /\ UNCHANGED fnVars

\* get_usage enters "with self._lock"
GetUsageAcquire ==
    /\ rpc = "idle"
    /\ LockFree(lockHolder)
    /\ lockHolder' = Reader
    /\ rpc' = "read_usage"
    /\ UNCHANGED <<wpc, thread_local, ownFile, trackCall, temp, ncalls, tracked, usage,
                   provider_usage, file_usage, snapshot>>
    /\ UNCHANGED mainVars
    /\ UNCHANGED fileVars
    /\ UNCHANGED fnVars

\* "usage": asdict(self.usage)
ReadUsage ==
    /\ rpc = "read_usage"
    /\ snapshot' = [snapshot EXCEPT !.usage = usage]
    /\ rpc' = "read_provider"
    /\ UNCHANGED <<lockHolder, wpc, thread_local, ownFile, trackCall, temp, ncalls, tracked,
                   usage, provider_usage, file_usage>>
    /\ UNCHANGED mainVars
    /\ UNCHANGED fileVars
    /\ UNCHANGED fnVars

\* "provider_usage": {k: asdict(v) ...}
ReadProvider ==
    /\ rpc = "read_provider"
    /\ snapshot' = [snapshot EXCEPT !.provider_usage = provider_usage]
    /\ rpc' = "read_files"
    /\ UNCHANGED <<lockHolder, wpc, thread_local, ownFile, trackCall, temp, ncalls, tracked,
                   usage, provider_usage, file_usage>>
    /\ UNCHANGED mainVars
    /\ UNCHANGED fileVars
    /\ UNCHANGED fnVars

\* "file_usage": {k: asdict(v) ...}: the dict to return is complete
ReadFiles ==
    /\ rpc = "read_files"
    /\ snapshot' = [snapshot EXCEPT !.file_usage = file_usage, !.complete = TRUE]
    /\ rpc' = "return"
    /\ UNCHANGED <<lockHolder, wpc, thread_local, ownFile, trackCall, temp, ncalls,
                   tracked, usage, provider_usage, file_usage>>
    /\ UNCHANGED mainVars
    /\ UNCHANGED fileVars
    /\ UNCHANGED fnVars

\* get_usage leaves the lock and hands the dict to its caller
ReturnUsage ==
    /\ rpc = "return"
    /\ lockHolder' = Free
    /\ snapshot' = NoSnapshot
    /\ rpc' = "idle"
    /\ UNCHANGED <<wpc, thread_local, ownFile, trackCall, temp, ncalls,
                   tracked, usage, provider_usage, file_usage>>
    /\ UNCHANGED mainVars
    /\ UNCHANGED fileVars
    /\ UNCHANGED fnVars

NextTokens ==
    \/ \E w \in TokWorkers : SetCurrentFileAcquire(w)
    \/ \E w \in TokWorkers : SetCurrentFileBody(w)
    \/ \E w \in TokWorkers : TrackLlm(w)
    \/ \E w \in TokWorkers : TrackEmbedding(w)
    \/ \E w \in TokWorkers : TrackAcquire(w)
    \/ \E w \in TokWorkers : LoadUsage(w)
    \/ \E w \in TokWorkers : StoreUsage(w)
    \/ \E w \in TokWorkers : LoadProvider(w)
    \/ \E w \in TokWorkers : StoreProvider(w)
    \/ \E w \in TokWorkers : LoadFile(w)
    \/ \E w \in TokWorkers : StoreFile(w)
    \/ GetUsageAcquire
    \/ ReadUsage
    \/ ReadProvider
    \/ ReadFiles
    \/ ReturnUsage

\* worker threads and a reading thread use the tracker; the file loop is idle
InitTokens ==
    /\ Init
    /\ excel_files = 0

SpecTokens == InitTokens /\ [][NextTokens]_vars

(* ------------------------------ claims -------------------------------- *)

\* no element of the list s occurs twice
NoDuplicates(s) == \A a, b \in 1..Len(s) : s[a] = s[b] => a = b

\* the list of fields is strictly ascending by row_index
StrictlyAscending(flds) == \A a, b \in 1..Len(flds) : a < b => flds[a] < flds[b]

\* the list of pairs has exactly one entry for every extracted input row
CoversInput(pairs) ==
    /\ Len(pairs) = Len(input_fields)
    /\ Range(FieldsOf(pairs)) = Range(input_fields)

\* batches whose matcher invocation failed
FailedBatches == {c \in 1..Len(futures) : futures[c].st = "done" /\ ~futures[c].ok}

\* C1 (as stated): on every path of a file run the list handed to write_results
\* has exactly one entry for every extracted input row.
C1_EveryPathCoversInput ==
    writeCalls > 0 => CoversInput(written)

\* C1 (amended): the list handed to write_results holds only extracted input
\* rows, none twice; it has exactly one entry per input row when all fields
\* were custom-matched or the merge was reached (single call returned, or
\* batched, whichever chunks failed); on the no-category, no-views and
\* no-selection paths and after a failed single call it is exactly the list of
\* custom-matched rows, the unmatched rows having no entry.
C1_WrittenRows ==
    writeCalls > 0 =>
        /\ NoDuplicates(FieldsOf(written))
        /\ Range(FieldsOf(written)) \subseteq Range(input_fields)
        /\ writeSite \in {"all_matched", "merged"} => CoversInput(written)
        /\ writeSite \in {"no_category", "no_views", "no_selection", "llm_error"} =>
              /\ written = matched_results
              /\ Len(written) = Len(input_fields) - Len(unmatched_fields)
              /\ Len(written) < Len(input_fields)

\* C1 witness: a batched run with custom matches and a failed chunk has written
C1_Witness ==
    /\ path = "batched"
    /\ writeSite = "merged"
    /\ matched_results # <<>>
    /\ FailedBatches # {}
    /\ CoversInput(written)

\* C2: when _match_custom_fields returns, |matched| + |unmatched| = |input|, no
\* row is in both lists and every input row is in exactly one of them.
C2_CustomPartition ==
    customDone =>
        /\ Len(matched_results) + Len(unmatched_fields) = Len(input_fields)
        /\ Range(FieldsOf(matched_results)) \cap Range(unmatched_fields) = {}
        /\ Range(FieldsOf(matched_results)) \cup Range(unmatched_fields)
              = Range(input_fields)
        /\ NoDuplicates(FieldsOf(matched_results))
        /\ NoDuplicates(unmatched_fields)

\* C2 witness: the custom stage returned with both lists non-empty
C2_Witness ==
    /\ customDone
    /\ Len(matched_results) >= 2
    /\ Len(unmatched_fields) >= 2

\* C3: in the batched path the list handed to write_results is strictly
\* ascending by row_index, and after the merge it lists the input rows in their
\* original order, whatever the order in which the chunks completed.
C3_BatchedSorted ==
    (path = "batched" /\ writeCalls > 0) =>
        /\ StrictlyAscending(FieldsOf(written))
        /\ writeSite = "merged" => FieldsOf(written) = input_fields

\* C3 witness: the chunks were collected out of submission order, with custom
\* matches in between, and the merged list was written
C3_Witness ==
    /\ path = "batched"
    /\ writeSite = "merged"
    /\ matched_results # <<>>
    /\ \E a, b \in 1..Len(collected) : a < b /\ collected[a] > collected[b]
    /\ ~StrictlyAscending(FieldsOf(unmatched_results))

\* the pairs of unmatched_results that belong to the fields of batch c
PairsOfBatch(c) ==
    {k \in 1..Len(unmatched_results) :
        unmatched_results[k].field \in Range(batches[c].fields)}

\* C4: every collected chunk contributes exactly one pair per field of the
\* chunk: the placeholder for a failed chunk, the matcher's result otherwise;
\* uncollected chunks contribute nothing, so once all chunks are collected there
\* is exactly one pair per unmatched field, and a failed chunk changes no pair of
\* a sibling.
C4_ChunkIsolation ==
    path = "batched" /\ futures # <<>> =>
        /\ \A c \in 1..Len(batches) :
              IF c \in Range(collected)
              THEN /\ Cardinality(PairsOfBatch(c)) = Len(batches[c].fields)
                   /\ \A k \in PairsOfBatch(c) :
                         unmatched_results[k].result =
                            IF futures[c].ok
                            THEN MatcherResult(unmatched_results[k].field)
                            ELSE EmptyResult
              ELSE PairsOfBatch(c) = {}
        /\ NoDuplicates(FieldsOf(unmatched_results))
        /\ Len(collected) = Len(batches) =>
              /\ Len(unmatched_results) = Len(unmatched_fields)
              /\ Range(FieldsOf(unmatched_results)) = Range(unmatched_fields)

\* C4 witness: all chunks collected, one of them failed and one succeeded
C4_Witness ==
    /\ path = "batched"
    /\ Len(batches) >= 2
    /\ Len(collected) = Len(batches)
    /\ FailedBatches # {}
    /\ \E c \in 1..Len(futures) : futures[c].st = "done" /\ futures[c].ok

\* C5: at every moment at most max_concurrent_batches matcher invocations of
\* the file's chunks are in progress.
C5_BoundedWorkers ==
    Cardinality(Running(futures)) <= max_concurrent_batches

\* C5 witness: every worker is busy while a further chunk waits in the queue
C5_Witness ==
    /\ Cardinality(Running(futures)) = max_concurrent_batches
    /\ \E c \in 1..Len(futures) : futures[c].st = "queued"

\* ceil(n / b)
CeilDiv(n, b) == (n + b - 1) \div b

RECURSIVE Concat(_, _)
\* the concatenation of the fields of the first n batches
Concat(bs, n) == IF n = 0 THEN <<>> ELSE Concat(bs, n - 1) \o bs[n].fields

\* the chunk property of C6 for the batches bs built from list u with size b
ChunksOf(bs, u, b) ==
    /\ Len(bs) = CeilDiv(Len(u), b)
    /\ \A k \in 1..Len(bs) :
          /\ bs[k].i = (k - 1) * b
          /\ Len(bs[k].fields) >= 1
          /\ Len(bs[k].fields) <= b
          /\ k < Len(bs) => Len(bs[k].fields) = b
    /\ Concat(bs, Len(bs)) = u

\* C6: the scheduler builds ceil(n/b) contiguous, non-overlapping chunks of at
\* most b fields, all but the last of exactly b, whose concatenation in chunk
\* order is the unmatched list: for the chunks of the run, and, where the
\* scheduler is about to split, for every list of up to MaxRows fields with
\* every b up to batch_size + 1; 72 fields with b = 30 give sizes 30, 30, 12.
C6_Chunks ==
    /\ batches # <<>> => ChunksOf(batches, unmatched_fields, batch_size)
    /\ pc = "submit" =>
          /\ \A n \in 0..MaxRows : \A b \in 1..(batch_size + 1) :
                LET u == [k \in 1..n |-> start_row + k - 1]
                IN  ChunksOf(Batches(u, b), u, b)
          /\ LET bs == Batches([k \in 1..72 |-> k], 30)
             IN  [k \in 1..Len(bs) |-> Len(bs[k].fields)] = <<30, 30, 12>>

\* C6 witness: at least three chunks were built and the last one is short
C6_Witness ==
    /\ Len(batches) >= 3
    /\ Len(batches[Len(batches)].fields) < batch_size

\* the result that the written list carries for input row f (defined when the
\* list has an entry for f)
WrittenResult(f) ==
    (CHOOSE k \in 1..Len(written) : written[k].field = f)

\* C7: whenever the matching call for a batch fails, the rows of that batch
\* receive empty results and the run goes on to write all rows instead of
\* aborting, in the batched path and in the single-call path alike.
C7_FailedCallDegrades ==
    /\ writeSite = "llm_error" =>
          /\ pc # "raised"
          /\ CoversInput(written)
          /\ \A f \in Range(unmatched_fields) :
                /\ f \in Range(FieldsOf(written))
                /\ WrittenResult(f).result = EmptyResult
    /\ (path = "batched" /\ writeSite = "merged") =>
          /\ pc # "raised"
          /\ CoversInput(written)
          /\ \A c \in FailedBatches : \A f \in Range(batches[c].fields) :
                /\ f \in Range(FieldsOf(written))
                /\ WrittenResult(f).result = EmptyResult

\* C8 (as stated): every discovered file that the loop has handled has an
\* output workbook saved, also when its processing failed part-way.
C8_EveryHandledFileSaved ==
    \A f \in Files : fileStatus[f] # "pending" => saved[f]

\* C8 (amended): an output workbook is saved for a discovered file exactly when
\* process_file returns for it without an exception; a file whose processing
\* fails part-way gets no output workbook and no placeholder, it is recorded as
\* failed and the loop goes on to the next file.
C8_SavedIffCompleted ==
    /\ \A f \in Files :
          /\ fileStatus[f] = "completed" => saved[f]
          /\ fileStatus[f] = "failed" => ~saved[f]
          /\ saved[f] => reached[f]
    /\ (mainPc = "in_file" /\ pc = "raised") => ~saved[file_index]
    /\ (mainPc = "in_file" /\ pc = "returned") => saved[file_index]

\* C8 witness: one file failed part-way and has no output, another one is saved
C8_Witness ==
    \E f, g \in Files :
        /\ fileStatus[f] = "failed" /\ reached[f] /\ ~saved[f]
        /\ fileStatus[g] = "completed" /\ saved[g]

\* C9: in auto mode a failure while handling one file (service selection,
\* processor construction, process_file) never keeps the loop from reaching
\* process_file for the other discovered files: when main has ended, every
\* file except one whose own setup failed has been handed to process_file.
C9_EveryFileReached ==
    mainPc \in {"done", "exit"} =>
        \A f \in Files : reached[f] \/ (mainPc = "exit" /\ f = file_index)

\* files whose process_file call is in progress
InProcess ==
    IF mainPc = "in_file" /\ pc \notin {"raised", "returned"} THEN {file_index} ELSE {}

\* files the loop has not started to handle
NotStarted == {f \in Files : f > file_index}

\* C10: files are handled by a pool of max_concurrent_files workers: never more
\* than that many files are in process, and while a worker is free and a file
\* waits, that file can be started, so that two files are in process at once.
C10_FilePool ==
    /\ Cardinality(InProcess) <= max_concurrent_files
    /\ (/\ InProcess # {}
        /\ Cardinality(InProcess) < max_concurrent_files
        /\ NotStarted # {}) => ENABLED (SelectAIService \/ ProcessFileBegin)

\* C11: a field is in the matched list exactly when the similarity of its best
\* custom-catalog candidate is at least the threshold; a score equal to the
\* threshold is accepted, a score below it leaves the field, as it was, among
\* the unmatched fields
C11_ThresholdInclusive ==
    fn = "_match_custom_fields" =>
        \A k \in 1..Len(fnArg.fields) :
            LET f == fnArg.fields[k]
                isMatched == \E m \in 1..Len(fnRes.matched) :
                                /\ fnRes.matched[m].field = f
                                /\ fnRes.matched[m].result = CustomResult(f)
                isUnmatched == f \in Range(fnRes.unmatched)
            IN  /\ isMatched <=> fnArg.score[k] >= custom_field_threshold
                /\ isUnmatched <=> fnArg.score[k] < custom_field_threshold

C11_Witness ==
    /\ fn = "_match_custom_fields"
    /\ \E k, j \in 1..Len(fnArg.fields) :
          /\ fnArg.score[k] = custom_field_threshold
          /\ fnArg.fields[k] \in Range(FieldsOf(fnRes.matched))
          /\ fnArg.score[j] = custom_field_threshold - 1
          /\ fnArg.fields[j] \in Range(fnRes.unmatched)

\* the response entries that carry the given row_index
EntriesFor(review, row) ==
    {k \in 1..Len(review) : "row_index" \in DOMAIN review[k] /\ review[k].row_index = row}

EmptyValue(v) == v = <<>> \/ v = None

C15_EmptyPayloadRaises ==
    (fn = "_match_fields_with_context" /\ Falsy(fnArg.response)) =>
        /\ fnRes.raised
        /\ fnRes.results = <<>>
        /\ fnRes.calls = 1

C15_Witness ==
    /\ fn = "_match_fields_with_context"
    /\ fnArg.response.kind = "dict"
    /\ DOMAIN fnArg.response.value = {}
    /\ Len(fnArg.fields) = 2
    /\ fnRes.raised

\* C14: every row of the merged output carries a non-null provenance tag:
\* "Custom" on the rows of the custom stage, a non-null tag on every row of
\* the matcher, the rows the model omitted and the rows of a failed chunk
\* included
C14_EveryRowTagged ==
    fn = "merge" =>
        \A k \in 1..Len(fnRes) :
            /\ Get(fnRes[k].result, "match", None) # None
            /\ fnRes[k].field \in fnArg.hits =>
                  Get(fnRes[k].result, "match", None) = CustomTag

\* the upper-case form of a lower-case letter of the accepted words
UpperChar(c) ==
    CASE c = "t" -> "T" [] c = "r" -> "R" [] c = "u" -> "U" [] c = "e" -> "E"
      [] c = "y" -> "Y" [] c = "s" -> "S" [] c = "x" -> "X"

\* str equals word when case is ignored (word is in lower case)
EqualsIgnoringCase(str, word) ==
    /\ Len(str) = Len(word)
    /\ \A i \in 1..Len(word) : str[i] \in {word[i], UpperChar(word[i])}

\* C16: key-flag normalisation yields the presence marker for the boolean
\* True and for a string that equals 'true', 'y', 'yes' or 'x' when case is
\* ignored; it yields the empty string for False, for any other string, for
\* a value that is neither boolean nor string, and for a missing value
C16_KeyFlagNormalised ==
    fn = "key_flag" =>
        LET accepted ==
               /\ "key_flag" \in DOMAIN fnArg
               /\ \/ fnArg.key_flag = PyTrue
                  \/ /\ IsStr(fnArg.key_flag)
                     /\ \E word \in {<<"t", "r", "u", "e">>, <<"y">>,
                                      <<"y", "e", "s">>, <<"x">>} :
                            EqualsIgnoringCase(fnArg.key_flag, word)
        IN  fnRes = IF accepted THEN KeyMarker ELSE <<>>

\* a mixed-case spelling of an accepted word
C16_Witness ==
    /\ fn = "key_flag"
    /\ "key_flag" \in DOMAIN fnArg
    /\ fnArg.key_flag = <<"t", "R", "u", "E">>
    /\ fnRes = KeyMarker

\* C17: field-id cleanup removes exactly one leading dot-delimited segment
\* ('V.A.B' becomes 'A.B', 'V.A' becomes 'A'); an identifier without a dot is
\* returned unchanged
C17_OneLeadingSegmentRemoved ==
    (fn = "field_id" /\ "field_id" \in DOMAIN fnArg /\ IsStr(fnArg.field_id)) =>
        LET raw == fnArg.field_id
            first == CHOOSE d \in Dots(raw) : \A e \in Dots(raw) : d <= e
        IN  fnRes = IF Dots(raw) = {} THEN raw ELSE SubSeq(raw, first + 1, Len(raw))

\* t is 'NN%', blanks, '-' or ':' at b, then a text: digits up to a, '%' at a + 1
PercentFirstForm(t, a, b) ==
    /\ a + 1 < b
    /\ b < Len(t)
    /\ \A k \in 1..a : t[k] \in Digits
    /\ t[a + 1] = "%"
    /\ \A k \in (a + 2)..(b - 1) : t[k] \in Space
    /\ t[b] \in {"-", ":"}

\* t is a text followed by '(NN%)': '(' at p, with a text before it
PercentLastForm(t, p) ==
    /\ p >= 2
    /\ p <= Len(t) - 3
    /\ t[p] = "("
    /\ \A k \in (p + 1)..(Len(t) - 2) : t[k] \in Digits
    /\ t[Len(t) - 1] = "%"
    /\ t[Len(t)] = ")"

\* t is 'NN%' and nothing else
BarePercentForm(t) ==
    /\ Len(t) >= 2
    /\ \A k \in 1..(Len(t) - 1) : t[k] \in Digits
    /\ t[Len(t)] = "%"

\* the positions of the digits that are directly followed by '%'
PercentEnds(str) == {j \in 1..(Len(str) - 1) : str[j] \in Digits /\ str[j + 1] = "%"}

\* the characters of a text that are neither blank, digit, '%' nor separator
Words(str) == SelectSeq(str, LAMBDA c : c \notin Digits \cup Space \cup {"%", "-", ":", "(", ")"})

\* C18: notes parsing tries, in this order, 'NN% - text', 'text (NN%)', a
\* bare 'NN%', then a percentage anywhere in the text, which is removed to
\* give the description; a text without percentage gives ('', the text,
\* trimmed). '85% - Good fit' and 'Good fit (85%)' give ('85%', 'Good fit'),
\* '85%' gives ('85%', ''), 'no percent here' gives ('', 'no percent here')
C18_NotesParsed ==
    (fn = "_parse_notes" /\ IsStr(fnArg)) =>
        LET t == Strip(fnArg)
            first == \E a \in 1..Len(t), b \in 1..(Len(t) - 1) : PercentFirstForm(t, a, b)
            last == \E p \in 1..Len(t) : PercentLastForm(t, p)
            bare == BarePercentForm(t)
        IN  /\ (fnArg = <<"8", "5", "%", " ", "-", " ", "G", "o", "o", "d", " ", "f", "i", "t">>
              => fnRes = [percentage |-> <<"8", "5", "%">>,
                          description |-> <<"G", "o", "o", "d", " ", "f", "i", "t">>])
            /\ (fnArg = <<"G", "o", "o", "d", " ", "f", "i", "t", " ", "(", "8", "5", "%", ")">>
              => fnRes = [percentage |-> <<"8", "5", "%">>,
                          description |-> <<"G", "o", "o", "d", " ", "f", "i", "t">>])
            /\ (fnArg = <<"8", "5", "%">>
              => fnRes = [percentage |-> <<"8", "5", "%">>,
                          description |-> <<>>])
            /\ (fnArg = <<"n", "o", " ", "p", "e", "r", "c", "e", "n", "t", " ", "h", "e", "r", "e">>
              => fnRes = [percentage |-> <<>>,
                          description |-> <<"n", "o", " ", "p", "e", "r", "c", "e", "n", "t", " ", "h", "e", "r", "e">>])
            /\ first =>
                  \E a \in 1..Len(t), b \in 1..(Len(t) - 1) :
                     /\ PercentFirstForm(t, a, b)
                     /\ fnRes.percentage = SubSeq(t, 1, a + 1)
                     /\ fnRes.description = Strip(SubSeq(t, b + 1, Len(t)))
            /\ (~first /\ last) =>
                  \E p \in 1..Len(t) :
                     /\ PercentLastForm(t, p)
                     /\ fnRes.percentage = SubSeq(t, p + 1, Len(t) - 1)
                     /\ fnRes.description = Strip(SubSeq(t, 1, p - 1))
            /\ (~first /\ ~last /\ bare) =>
                  /\ fnRes.percentage = t
                  /\ fnRes.description = <<>>
            /\ (~first /\ ~last /\ ~bare /\ PercentEnds(fnArg) # {}) =>
                  /\ \E i \in 1..Len(fnArg), j \in PercentEnds(fnArg) :
                        /\ \A u \in PercentEnds(fnArg) : j <= u
                        /\ i <= j
                        /\ \A k \in i..j : fnArg[k] \in Digits
                        /\ i = 1 \/ fnArg[i - 1] \notin Digits
                        /\ fnRes.percentage = SubSeq(fnArg, i, j + 1)
                  /\ PercentEnds(fnRes.description) = {}
                  /\ Words(fnRes.description) = Words(fnArg)
            /\ PercentEnds(fnArg) = {} =>
                  /\ fnRes.percentage = <<>>
                  /\ fnRes.description = t

\* a text of both the first and the second form: the first form decides
C18_Witness ==
    /\ fn = "_parse_notes"
    /\ fnArg = <<"8", "5", "%", " ", "-", " ", "G", "o", "o", "d", " ", "(", "9", "0", "%", ")">>
    /\ fnRes.percentage = <<"8", "5", "%">>
    /\ fnRes.description = <<"G", "o", "o", "d", " ", "(", "9", "0", "%", ")">>

\* C19: the quote-repair pass is idempotent: applied to its own output it
\* changes nothing, also when the first pass escaped an interior quote
C19_RepairIdempotent ==
    fn = "parse_fields" => fnRes.twice = fnRes.once

\* the quotes of the text that the pass meets while it is inside a string
InteriorQuotes(content_str) ==
    {i \in 1..Len(content_str) :
        /\ content_str[i] = "\""
        /\ ParseFieldsLoop(content_str, i - 1).in_string}

\* the characters after position i that are not whitespace
SignificantAfter(content_str, i) ==
    {j \in (i + 1)..Len(content_str) : content_str[j] \notin Space}

\* the pass accepted the quote at i as the closing quote
AcceptedAsCloser(content_str, i) ==
    /\ ~ParseFieldsLoop(content_str, i).in_string
    /\ ParseFieldsLoop(content_str, i).result_chars
          = Append(ParseFieldsLoop(content_str, i - 1).result_chars, "\"")

\* the pass emitted the quote at i escaped and stayed inside the string
EmittedEscaped(content_str, i) ==
    /\ ParseFieldsLoop(content_str, i).in_string
    /\ ParseFieldsLoop(content_str, i).result_chars
          = ParseFieldsLoop(content_str, i - 1).result_chars \o <<"\\", "\"">>

\* C20, as stated: a quote met inside a quoted segment is accepted as the
\* closing quote exactly when the next non-whitespace character is a comma or
\* a closing bracket; with any other next character, or with no next
\* character, it is emitted escaped and the pass stays inside the string
C20_CloserOnlyBeforeSeparator ==
    fn = "parse_fields" =>
        \A i \in InteriorQuotes(fnArg) :
            LET after == SignificantAfter(fnArg, i)
                separator == /\ after # {}
                             /\ fnArg[CHOOSE j \in after : \A k \in after : j <= k]
                                   \in {",", "]", "}"}
            IN  IF separator
                THEN AcceptedAsCloser(fnArg, i)
                ELSE EmittedEscaped(fnArg, i)

\* C20, amended: a quote met inside a quoted segment is accepted as the
\* closing quote exactly when the next non-whitespace character is ',', ']'
\* or '}', or when no non-whitespace character follows it; in every other
\* case it is emitted escaped and the pass stays inside the string
C20_CloserBeforeSeparatorOrEnd ==
    fn = "parse_fields" =>
        \A i \in InteriorQuotes(fnArg) :
            LET after == SignificantAfter(fnArg, i)
                closer == \/ after = {}
                          \/ fnArg[CHOOSE j \in after : \A k \in after : j <= k]
                                \in {",", "]", "}"}
            IN  IF closer
                THEN AcceptedAsCloser(fnArg, i)
                ELSE EmittedEscaped(fnArg, i)

\* one text with an escaped interior quote, a closer before blanks and a
\* separator, and a closer followed by nothing but a blank
C20_Witness ==
    /\ fn = "parse_fields"
    /\ Len(fnArg) >= 4
    /\ \E i \in InteriorQuotes(fnArg) : EmittedEscaped(fnArg, i)
    /\ \E i \in InteriorQuotes(fnArg) :
          /\ AcceptedAsCloser(fnArg, i)
          /\ SignificantAfter(fnArg, i) = {}
          /\ i < Len(fnArg)

\* a text that is empty or consists only of whitespace
Blank(str) == \A i \in 1..Len(str) : str[i] \in Space

\* C21: the custom-catalog query string is the field name, the descriptive
\* text and the sample value, in that order, with every part that is empty or
\* only whitespace dropped and the remaining parts joined by exactly one
\* space: no leading, trailing or doubled space comes from a dropped part
C21_BlankPartsDropped ==
    fn = "query_text" =>
        LET present == SelectSeq(fnArg, LAMBDA p : ~Blank(p))
        IN  /\ fnRes = JoinSpace([i \in 1..Len(present) |-> Strip(present[i])])
            /\ fnRes # <<>> => (fnRes[1] # " " /\ fnRes[Len(fnRes)] # " ")

\* the write sites of the three short circuits of a run
ShortCircuitSites == {"no_category", "no_views", "no_selection"}

\* C22: when the category lookup returns nothing, the view listing returns
\* nothing, or the view selection is empty (also when its language-model call
\* failed), the run raises no error, makes no field-matching trackCall, and writes
\* exactly the custom-matched rows
C22_ShortCircuitWritesMatched ==
    /\ writeSite \in ShortCircuitSites =>
          /\ pc \in {"ws_returned", "returned"}
          /\ matchCalls = <<>>
          /\ futures = <<>>
          /\ unmatched_results = <<>>
          /\ written = matched_results
          /\ writeCalls = 1
    /\ selectionCall \in {"raised", "none", "no_names"} =>
          /\ writeSite = "no_selection"
          /\ pc # "raised"

\* the selection call failed in a run that had custom-matched rows to write
C22_Witness ==
    /\ selectionCall = "raised"
    /\ writeSite = "no_selection"
    /\ pc = "ws_returned"
    /\ matched_results # <<>>
    /\ unmatched_fields # <<>>
    /\ written = matched_results

C26_OneCallWhenFewUnmatched ==
    (customDone /\ Len(unmatched_fields) <= batch_size) =>
        /\ Len(matchCalls) <= 1
        /\ writeSite \in {"merged", "llm_error"} => matchCalls = <<unmatched_fields>>

\* the statement without the matching stage as its condition: every run that
\* returns with at most batch_size unmatched fields made exactly one invocation
C26_ExactlyOneCallAlways ==
    (pc \in {"ws_returned", "returned"} /\ Len(unmatched_fields) <= batch_size) =>
        matchCalls = <<unmatched_fields>>

\* more than batch_size input fields, enough of them custom-matched
C26_Witness ==
    /\ Len(input_fields) > batch_size
    /\ path = "batched"
    /\ Len(unmatched_fields) = batch_size
    /\ writeSite = "merged"
    /\ matchCalls = <<unmatched_fields>>

\* C23: a view name of the selection answer that is not in the candidate view
\* set contributes no rows to the matching context: every context row's view
\* name belongs to the candidate set, whatever the field catalog holds
C23_ContextWithinCandidates ==
    fn = "prepare_context" =>
        \A k \in 1..Len(fnRes) : fnRes[k].view_name \in fnArg.candidates

\* the service reported the pair of result i of the call as invalid
ReportedInvalid(i) ==
    LET key == <<fnArg.results[i].table_id, fnArg.results[i].field_id>>
    IN  /\ fnArg.response.status_code = status_created
        /\ key \in DOMAIN fnArg.response.checkresults
        /\ fnArg.response.checkresults[key] # 0

\* C24: with verification enabled, a result whose (table, field) pair the
\* validation service reports as invalid has table id, field id, data type,
\* lengths, sample value and match tag reset to empty, its notes replaced by
\* the rejection message, and a verification marker that is set and differs
\* from the confirmed, the not-applicable and the empty marker
C24_RejectedResultMarked ==
    fn = "odata_verify" =>
        \A i \in 1..Len(fnRes) :
            ReportedInvalid(i) =>
                /\ fnRes[i].table_id = <<>>
                /\ fnRes[i].field_id = <<>>
                /\ fnRes[i].data_type = <<>>
                /\ fnRes[i].length_total = <<>>
                /\ fnRes[i].length_dec = <<>>
                /\ fnRes[i].sample_value = <<>>
                /\ fnRes[i].match = <<>>
                /\ fnRes[i].notes = ODATA_MESSAGE
                /\ "verify" \in DOMAIN fnRes[i]
                /\ fnRes[i].verify \notin {VerifiedMark, NotApplicableMark, <<>>}

\* C29: when the answer follows the function schema's key_flag convention, the
\* marker for a key field and the empty string otherwise, the parsed key flag
\* is the marker exactly for the rows the answer marked as key
C29_SchemaMarkerKept ==
    (fn = "key_flag" /\ "key_flag" \in DOMAIN fnArg
                     /\ fnArg.key_flag \in {KeyMarker, <<>>}) =>
        fnRes = fnArg.key_flag

\* the positions of a worker inside the lock-protected body of a track call
TrackBody == {"usage_load", "usage_store", "provider_load", "provider_store",
              "file_load", "file_store"}

\* no track call is between its first read and its last write
NoCallInBody == \A w \in TokWorkers : wpc[w] \notin TrackBody

RECURSIVE SumCalls(_, _, _)
\* the counters after the first n calls of a list, as self.usage counts them
\* (global) or as an entry counts them
SumCalls(calls, n, global) ==
    IF n = 0
    THEN ZeroUsage
    ELSE IF global
         THEN ApplyToUsage(SumCalls(calls, n - 1, global), calls[n])
         ELSE ApplyToEntry(SumCalls(calls, n - 1, global), calls[n])

\* field by field sum of two TokenUsage values
Plus(a, b) == [k \in DOMAIN a |-> a[k] + b[k]]

RECURSIVE SumWorkers(_, _, _)
\* the sum over the workers 1..n that satisfy keep of their returned calls
SumWorkers(n, keep(_), global) ==
    IF n = 0
    THEN ZeroUsage
    ELSE Plus(SumWorkers(n - 1, keep, global),
              IF keep(n) THEN SumCalls(tracked[n], Len(tracked[n]), global)
                         ELSE ZeroUsage)

\* C27: for any interleaving of workers that each called set_current_file with
\* their own file name, every track call of a worker adds its tokens to the
\* file_usage entry of the file that worker set and to no other entry, and one
\* worker's set_current_file never changes the file another worker sees
C27_OwnFileOnly ==
    /\ \A w \in TokWorkers :
          thread_local[w] = IF wpc[w] \in {"new", "set_body"} THEN NoFile
                                                              ELSE ownFile[w]
    /\ NoCallInBody =>
          \A f \in DOMAIN file_usage :
              file_usage[f] = SumWorkers(MaxWorkers, LAMBDA w : ownFile[w] = f, FALSE)

\* two workers with different files, each with a counted call that returned
C27_Witness ==
    /\ \E v, w \in TokWorkers :
          /\ ownFile[v] = "a.xlsx" /\ ownFile[w] = "b.xlsx"
          /\ tracked[v] # <<>> /\ tracked[w] # <<>>
          /\ tracked[v] # tracked[w]
    /\ NoCallInBody
    /\ file_usage["a.xlsx"] # file_usage["b.xlsx"]

RECURSIVE SumFiles(_, _, _)
\* counter k summed over the entries of a file_usage dict
SumFiles(fu, files, k) ==
    IF files = {}
    THEN 0
    ELSE LET f == CHOOSE g \in files : TRUE
         IN  fu[f][k] + SumFiles(fu, files \ {f}, k)

\* threads inside a lock-protected body of the tracker
InLockedBody ==
    {w \in TokWorkers : wpc[w] \in TrackBody \cup {"set_body"}}
    \cup (IF rpc # "idle" THEN {Reader} ELSE {})

\* C28: for any interleaving of concurrent track_llm and track_embedding
\* calls, once no call is in progress the global counters equal the sums of
\* the arguments of all counted calls that returned (no update is lost), and
\* every get_usage reads a state between two whole calls: no call is in
\* progress while it reads, and its three parts agree with each other
C28_NoLostUpdate ==
    /\ Cardinality(InLockedBody) <= 1
    /\ NoCallInBody =>
          /\ usage = SumWorkers(MaxWorkers, LAMBDA w : TRUE, TRUE)
          /\ provider_usage = SumWorkers(MaxWorkers, LAMBDA w : TRUE, FALSE)
    /\ snapshot.complete =>
          /\ snapshot.usage.llm_input_tokens = snapshot.provider_usage.llm_input_tokens
          /\ snapshot.usage.llm_output_tokens = snapshot.provider_usage.llm_output_tokens
          /\ snapshot.usage.embedding_tokens = snapshot.provider_usage.embedding_tokens
          /\ snapshot.provider_usage.llm_total_tokens =
                snapshot.provider_usage.llm_input_tokens
                + snapshot.provider_usage.llm_output_tokens
          /\ \A k \in DOMAIN ZeroUsage :
                SumFiles(snapshot.file_usage, DOMAIN snapshot.file_usage, k)
                    = snapshot.provider_usage[k]

\* a read that falls between two calls: it holds the whole of a call that
\* returned, while another worker's counted call waits for the lock
C28_Witness ==
    /\ snapshot.complete
    /\ snapshot.usage = usage
    /\ usage.llm_total_tokens > 0
    /\ \E v, w \in TokWorkers :
          /\ tracked[v] # <<>>
          /\ wpc[w] = "track_wait"
          /\ trackCall[w].kind = "embedding"

\* C30: write_results leaves every output cell unchanged for a row whose
\* verification marker from a prior run is anything but empty or '-'; only
\* rows with the marker '' or '-' have their output cells overwritten; and a
\* write failure on one row does not stop the writing of the following rows
C30_MarkedRowsUntouched ==
    fn = "write_results" =>
        \A i \in 1..Len(fnArg.results) :
            LET row == fnArg.results[i].field.row_index
                isverify == fnArg.results[i].field.verify
                fail == fnArg.fails[i]
            IN  IF isverify \in {<<>>, <<"-">>}
                THEN \A j \in 1..Len(OutputColumns) :
                        fnRes[row][OutputColumns[j]] =
                            IF fail = 0 \/ j < fail
                            THEN Get(fnArg.results[i].result, OutputColumns[j], <<>>)
                            ELSE fnArg.worksheet[row][OutputColumns[j]]
                ELSE fnRes[row] = fnArg.worksheet[row]

\* a row whose write failed, then a row with a marker of a prior run, then a
\* row that is written in full
C30_Witness ==
    /\ fn = "write_results"
    /\ Len(fnArg.results) = 3
    /\ fnArg.results[1].field.verify = <<>> /\ fnArg.fails[1] = 6
    /\ fnArg.results[2].field.verify = VerifiedMark
    /\ fnArg.results[2].result # EmptyDict
    /\ fnRes[start_row + 1] = PriorCells
    /\ fnArg.results[3].field.verify = <<"-">> /\ fnArg.fails[3] = 0
    /\ fnArg.results[3].result # EmptyDict
    /\ fnRes[start_row + 2].table_id = <<"T">>
    /\ fnRes[start_row + 2].verify = VerifiedMark

====
